---- MODULE Spec2Model ----
(***************************************************************************)
(* State-machine model of the Albedo RHI Vulkan wrapper: the Device        *)
(* Context and its creation guard, the swapchain acquire / present /       *)
(* recreate operations, and the two command-buffer variants.               *)
(*                                                                         *)
(* Conventions used throughout:                                            *)
(*  - assert(cond) is an enforced check: a failing assert terminates the   *)
(*    process (variable "aborted"), nothing runs afterwards;               *)
(*  - a thrown exception makes the call fail ("outcome" of "last") and     *)
(*    leaves the assignments made before the throw in place;               *)
(*  - a blocking native call is an action that is enabled once the call    *)
(*    can return (vkDeviceWaitIdle / vkQueueWaitIdle drain the queue);     *)
(*  - "last" records the most recent API call, its arguments and outcome.  *)
(***************************************************************************)
EXTENDS Integers, Sequences, FiniteSets, TLC

\* ---------------------------------------------------------------- bounds
NumThreads == 2

Threads == 1..NumThreads

MaxSubmits == 2

ResetBuffers == {"cbR"}

OneTimeBuffers == {"cbO"}

CommandBuffers == ResetBuffers \cup OneTimeBuffers

\* ------------------------------------------------------ native vocabulary
\* VkResult values a swapchain acquire / present can report.
ResultCodes ==
    {"VK_SUCCESS", "VK_SUBOPTIMAL_KHR", "VK_ERROR_OUT_OF_DATE_KHR",
     "VK_TIMEOUT", "VK_ERROR_DEVICE_LOST"}

StaleCodes == {"VK_SUBOPTIMAL_KHR", "VK_ERROR_OUT_OF_DATE_KHR"}

\* The initialization steps of VulkanContext::Create, in call order.
CreateSteps ==
    <<"enable_validation_layers", "create_vulkan_instance",
      "create_debug_messenger", "create_surface", "create_physical_device",
      "create_logical_device", "create_memory_allocator",
      "create_swap_chain">>

\* The steps of one RecreateSwapChain call, in the order of the code.
RecreateOrder ==
    <<"wait_idle", "destroy_image_views", "destroy_swapchain",
      "query_surface_capabilities", "derive_extent", "create_swapchain",
      "create_depth_image", "get_images", "create_image_views">>

VARIABLES
    aborted,                \* a failed assert has terminated the process
    NO_VULKAN_CONTEXTS,     \* static creation guard
    liveContexts,           \* number of Device Contexts that exist
    RECREATING,             \* static flag of RecreateSwapChain
    pc,                     \* per thread: position inside RecreateSwapChain
    steps,                  \* per thread: steps done by the running call
                            \* (cleared when the call returns)
    oldWork,                \* per thread: GPU work in flight at call entry
                            \* (cleared when the call returns)
    seenZero,               \* per thread: local width/height read as zero
    m_swapchain,            \* "null" | "live" | "destroyed"
    surfaceSpecial,         \* surface leaves the extent to the application
    fbZero,                 \* window framebuffer has zero area
    eventPending,           \* a window event is waiting in the queue
    stale,                  \* surface no longer matches the swapchain
    pending,                \* submissions the GPU has not completed
    nextSubmit,             \* id of the next submission
    submitOf,               \* per command buffer: id of its last submission
    m_is_recording,         \* per command buffer: recording flag
    handle,                 \* per command buffer: "valid" | "freed" |
                            \* "double_freed"
    last,                   \* the most recent API call and its outcome
    m_image_layout,         \* the recorded layout of the image
    recorded,               \* commands recorded for the image, in order
    m_global_onetime_command_pools,    \* (thread, family) -> pool or 0
    m_global_resetable_command_pools,  \* (thread, family) -> pool or 0
    poolFlags,              \* per command pool created: its creation flags
    syncState,              \* per Semaphore / Fence object: "unborn" |
                            \* "alive" | "destroyed"
    m_sync_handle,          \* per object: m_semaphore / m_fence
    destroyCount,           \* per native handle: times it was destroyed
    externalHolders,        \* shared_ptr<VulkanContext> held by the application
    contextState,           \* "unborn" | "alive" | "destroyed" (~VulkanContext
                            \* ran and the device is gone)
    m_memory_allocator,     \* the context's member: "null" | "set"
    allocatorState,         \* "unborn" | "alive" | "destroyed"
                            \* (vmaDestroyAllocator ran)
    resourceRefs,           \* per Buffer / Image: shared_ptr references to it
    resourceState,          \* per Buffer / Image: "unborn" | "alive" |
                            \* "destroyed"
    releaseCount,           \* per Buffer / Image: times its native handles
                            \* were destroyed
    initialized,            \* objects made by the Create call of the context
    released,               \* objects of the context released, in order
    vertex_shader,          \* (set, binding) pairs the vertex stage declares
    fragment_shader,        \* (set, binding) pairs the fragment stage declares
    descriptorSets,         \* per set index: the layout bindings deduced
    deduceOutcome,          \* "none" | "ok" | "runtime_error"
    vertex_push_constants,  \* (offset, size) ranges the vertex stage declares
    fragment_push_constants,\* (offset, size) ranges the fragment stage declares
    push_constants,         \* the push-constant ranges deduced, in order
    m_image_sampler,        \* per sampled image: "nullptr" | "sampler"
    m_descriptor_set,       \* per binding of the descriptor set: image written
    m_allocation,           \* per Buffer: creation flags ({VK_NULL_HANDLE}: none)
    mapCount,               \* per Buffer: mappings of its memory that are held
    bufferMemory,           \* per Buffer: the data last copied into its memory
    strayWrite,             \* a memcpy went through an indeterminate pointer
    fenceSubmission,        \* the submission the fence was last given to (0: none)
    surfaceCapabilities,    \* what vkGetPhysicalDeviceSurfaceCapabilitiesKHR reports
    windowSize,             \* the framebuffer size of the window while it has an area
    extraImages,            \* images the driver creates beyond the requested count
    swapChainCreateInfo,    \* the VkSwapchainCreateInfoKHR last filled in
    m_swapchain_current_extent,\* the extent stored in the context
    m_swapchain_image_count,\* the image count stored in the context
    depthPeak,              \* most depth/stencil images alive at once in the
                            \* last create_swap_chain
    phyDevCnt,              \* number of physical devices the instance enumerates
    deviceIndex,            \* devices the selection loop has examined
    m_physical_device,      \* handle of the device examined last (0: none)
    selectedDevice,         \* what the driver reports about the device selected
    m_device_queue_family,  \* graphics / transfer / present index (-1: no value)
    m_surface_formats,      \* size of the surface-format list of the context
    m_surface_present_modes,\* size of the present-mode list of the context
    deviceOutcome,          \* "none" | "running" | "selected" | "runtime_error"
    skippedQualified,       \* the loop has passed over a device that qualifies
    queueFamilies,          \* the queue families the driver lists (index order)
    familiesChecked,        \* "none" | "queried" | "true" | "false"
    m_swapchain_imageviews, \* per view: "live" | "destroyed" | "null"
    handleUse,              \* handles of the last native call: "none" | "valid" | "destroyed"
    m_swapchain_current_image_index,\* index the last acquire wrote
    indexUse,               \* last use of the index: "none" | "in_range" | "out_of_range"
    bufferCopy,             \* the VkBufferCopy of the last vkCmdCopyBuffer, with the buffer sizes
    m_global_descriptor_pool,\* (thread) -> descriptor pool or 0
    descriptorPools,        \* the number of DescriptorPool objects created
    getter,                 \* each thread's position in a global-pool getter
    granted                 \* the (registry, key, pool) triples the getters have returned

ctxVars == <<aborted, NO_VULKAN_CONTEXTS, liveContexts>>

swapVars == <<RECREATING, pc, steps, oldWork, seenZero, m_swapchain>>

envVars == <<surfaceSpecial, fbZero, eventPending, stale>>

gpuVars == <<pending, nextSubmit, submitOf>>

cmdVars == <<m_is_recording, handle>>

imgVars == <<m_image_layout, recorded>>

poolVars == <<m_global_onetime_command_pools,
              m_global_resetable_command_pools, poolFlags>>

\* The state of the objects created from the context (images, pools, ...).
syncVars == <<syncState, m_sync_handle, destroyCount>>

\* Who owns the context, the allocator and the allocator's resources.
ownVars == <<externalHolders, contextState, m_memory_allocator,
             allocatorState, resourceRefs, resourceState, releaseCount,
             initialized, released>>

\* The shaders of a graphics pipeline and the layout deduced from them.
layoutVars == <<vertex_shader, fragment_shader, descriptorSets, deduceOutcome,
                vertex_push_constants, fragment_push_constants,
                push_constants>>

\* The images given to a descriptor set and the bindings of the set.
descVars == <<m_image_sampler, m_descriptor_set>>

\* The Buffers written from the host.
bufVars == <<m_allocation, mapCount, bufferMemory, strayWrite>>

\* The fence the application passes to Submit.
fenceVars == <<fenceSubmission>>

\* The surface as the driver describes it, and the values derived from it.
surfVars == <<surfaceCapabilities, windowSize, extraImages,
              swapChainCreateInfo, m_swapchain_current_extent,
              m_swapchain_image_count,
             depthPeak>>

\* The physical devices and what create_physical_device has done with them.
devVars == <<phyDevCnt, deviceIndex, m_physical_device, selectedDevice,
             m_device_queue_family, m_surface_formats, m_surface_present_modes, deviceOutcome,
             skippedQualified>>

\* The queue families of one device and the result of resolving them.
famVars == <<queueFamilies, familiesChecked>>

\* The swapchain image views, the current image index and how they are used.
frameVars == <<m_swapchain_imageviews, handleUse,
               m_swapchain_current_image_index, indexUse>>

\* The region of the last buffer copy recorded.
copyVars == <<bufferCopy>>

\* The per-thread descriptor pools and the threads inside a getter.
raceVars == <<m_global_descriptor_pool, descriptorPools, getter, granted>>

extVars == <<imgVars, poolVars, syncVars, ownVars, layoutVars, descVars,
             bufVars, fenceVars, surfVars, devVars, famVars, frameVars,
             copyVars, raceVars>>

\* What the image operations leave alone, and what the pool operations do.
notImgVars == <<poolVars, syncVars, ownVars, layoutVars, descVars, bufVars,
                fenceVars, surfVars, devVars, famVars, frameVars, copyVars,
                raceVars>>

notPoolVars == <<imgVars, syncVars, ownVars, layoutVars, descVars, bufVars,
                 fenceVars, surfVars, devVars, famVars, frameVars, copyVars,
                 raceVars>>

notSyncVars == <<imgVars, poolVars, ownVars, layoutVars, descVars, bufVars,
                 fenceVars, surfVars, devVars, famVars, frameVars, copyVars,
                 raceVars>>

notOwnVars == <<imgVars, poolVars, syncVars, layoutVars, descVars, bufVars,
                fenceVars, surfVars, devVars, famVars, frameVars, copyVars,
                raceVars>>

notLayoutVars == <<imgVars, poolVars, syncVars, ownVars, descVars, bufVars,
                   fenceVars, surfVars, devVars, famVars, frameVars, copyVars,
                   raceVars>>

notDescVars == <<imgVars, poolVars, syncVars, ownVars, layoutVars, bufVars,
                 fenceVars, surfVars, devVars, famVars, frameVars, copyVars,
                 raceVars>>

notBufVars == <<imgVars, poolVars, syncVars, ownVars, layoutVars, descVars,
                fenceVars, surfVars, devVars, famVars, frameVars, copyVars,
                raceVars>>

notFenceVars == <<imgVars, poolVars, syncVars, ownVars, layoutVars, descVars,
                  bufVars, surfVars, devVars, famVars, frameVars, copyVars,
                  raceVars>>

notSurfVars == <<imgVars, poolVars, syncVars, ownVars, layoutVars, descVars,
                 bufVars, fenceVars, devVars, famVars, frameVars, copyVars,
                 raceVars>>

notDevVars == <<imgVars, poolVars, syncVars, ownVars, layoutVars, descVars,
                bufVars, fenceVars, surfVars, famVars, frameVars, copyVars,
                raceVars>>

notFamVars == <<imgVars, poolVars, syncVars, ownVars, layoutVars, descVars,
                bufVars, fenceVars, surfVars, devVars, frameVars, copyVars,
                raceVars>>

notFrameVars == <<imgVars, poolVars, syncVars, ownVars, layoutVars, descVars,
                  bufVars, fenceVars, surfVars, devVars, famVars, copyVars,
                  raceVars>>

notCopyVars == <<imgVars, poolVars, syncVars, ownVars, layoutVars, descVars,
                 bufVars, fenceVars, surfVars, devVars, famVars, frameVars,
                 raceVars>>

notRaceVars == <<imgVars, poolVars, syncVars, ownVars, layoutVars, descVars,
                 bufVars, fenceVars, surfVars, devVars, famVars, frameVars,
                 copyVars>>

\* What the steps of a global-pool getter leave alone outside the pools.
notRegistryVars == <<imgVars, syncVars, ownVars, layoutVars, descVars, bufVars,
                     fenceVars, surfVars, devVars, famVars, frameVars,
                     copyVars>>

coreVars == <<ctxVars, swapVars, envVars, gpuVars, cmdVars>>

vars == <<coreVars, last, extVars>>

NoCall == [op |-> "none"]

\* ------------------------------------------------------------- helpers
\* The Semaphore and Fence objects of the program; an object's name also names
\* the native handle its constructor creates.
Semaphores == {"semaphore1", "semaphore2"}

Fences == {"fence1", "fence2"}

SyncObjects == Semaphores \cup Fences

\* An API call can run: the process is alive and a Device Context exists.
Alive == ~aborted /\ liveContexts > 0

\* Thread t is not inside RecreateSwapChain, so it can start another call.
Idle(t) == pc[t] = "idle"

\* GPU work of the last submission of cb is still outstanding.
IsPending(cb) == submitOf[cb] \in pending

\* The GPU completes one outstanding submission.
GpuComplete(id) ==
    /\ ~aborted
    /\ id \in pending
    /\ pending' = pending \ {id}
    /\ UNCHANGED extVars
    /\ UNCHANGED <<ctxVars, swapVars, envVars, nextSubmit, submitOf,
                   cmdVars, last>>

\* ------------------------------------------------------ command buffers
\* CommandBuffer::IsRecording
IsRecording(cb) == m_is_recording[cb]

\* Variant of BeginPrecondition: the assert is missing.
BeginPrecondition_Unchecked(cb) == TRUE

\* assert(!IsRecording()) at the head of Begin (both variants).
BeginPrecondition(cb) == ~IsRecording(cb)

\* assert(IsRecording()) at the head of End (both variants).
EndPrecondition(cb) == IsRecording(cb)

\* The record of a Begin / End call kept in "last".
CallRecord(op, t, cb, outcome) ==
    [op |-> op, cb |-> cb, outcome |-> outcome,
     wasRecording |-> IsRecording(cb),
     wasPending |-> IsPending(cb),
     wasFreed |-> handle[cb] # "valid",
     didReset |-> op = "Begin" /\ cb \in ResetBuffers /\ outcome # "assert"]

\* CommandBufferReset::Begin. beginOk: vkBeginCommandBuffer succeeds.
\* vkResetCommandBuffer runs unconditionally before it.
CommandBufferReset_Begin(t, cb, beginOk) ==
    /\ Alive /\ Idle(t) /\ cb \in ResetBuffers
    /\ IF ~BeginPrecondition(cb)
       THEN /\ aborted' = TRUE
            /\ last' = CallRecord("Begin", t, cb, "assert")
            /\ UNCHANGED m_is_recording
       ELSE /\ m_is_recording' =
                   [m_is_recording EXCEPT ![cb] = IF beginOk THEN TRUE ELSE @]
            /\ last' = CallRecord("Begin", t, cb,
                                  IF beginOk THEN "ok" ELSE "runtime_error")
            /\ UNCHANGED aborted
    /\ UNCHANGED extVars
    /\ UNCHANGED <<NO_VULKAN_CONTEXTS, liveContexts, swapVars,
                   envVars, gpuVars, handle>>

\* CommandBufferOneTime::Begin: no reset, otherwise the same.
CommandBufferOneTime_Begin(t, cb, beginOk) ==
    /\ Alive /\ Idle(t) /\ cb \in OneTimeBuffers
    /\ IF ~BeginPrecondition(cb)
       THEN /\ aborted' = TRUE
            /\ last' = CallRecord("Begin", t, cb, "assert")
            /\ UNCHANGED m_is_recording
       ELSE /\ m_is_recording' =
                   [m_is_recording EXCEPT ![cb] = IF beginOk THEN TRUE ELSE @]
            /\ last' = CallRecord("Begin", t, cb,
                                  IF beginOk THEN "ok" ELSE "runtime_error")
            /\ UNCHANGED aborted
    /\ UNCHANGED extVars
    /\ UNCHANGED <<NO_VULKAN_CONTEXTS, liveContexts, swapVars,
                   envVars, gpuVars, handle>>

\* CommandBufferReset::End and CommandBufferOneTime::End (same body).
\* endOk: vkEndCommandBuffer succeeds.
CommandBuffer_End(t, cb, endOk) ==
    /\ Alive /\ Idle(t) /\ cb \in CommandBuffers
    /\ IF ~EndPrecondition(cb)
       THEN /\ aborted' = TRUE
            /\ last' = CallRecord("End", t, cb, "assert")
            /\ UNCHANGED m_is_recording
       ELSE /\ m_is_recording' =
                   [m_is_recording EXCEPT ![cb] = IF endOk THEN FALSE ELSE @]
            /\ last' = CallRecord("End", t, cb,
                                  IF endOk THEN "ok" ELSE "runtime_error")
            /\ UNCHANGED aborted
    /\ UNCHANGED extVars
    /\ UNCHANGED <<NO_VULKAN_CONTEXTS, liveContexts, swapVars,
                   envVars, gpuVars, handle>>

\* vkQueueSubmit with a fence: the fence is signaled when the submission
\* completes. fence: the application's fence is passed (else VK_NULL_HANDLE).
AttachFence(fence, submitOk) ==
    fenceSubmission' = IF fence /\ submitOk THEN nextSubmit
                       ELSE fenceSubmission

\* The record of a Submit call kept in "last".
SubmitRecord(t, cb, waitIdle, fence, submitOk, outcome) ==
    [op |-> "Submit", cb |-> cb, outcome |-> outcome,
     waitIdle |-> waitIdle, fence |-> fence, nativeOk |-> submitOk,
     id |-> nextSubmit,
     wasRecording |-> IsRecording(cb),
     wasFreed |-> handle[cb] # "valid",
     duringRecreate |->
         \E u \in Threads \ {t} :
             pc[u] \in {"create", "poll_get", "poll_wait", "build"}]

\* vkQueueSubmit followed by the optional vkQueueWaitIdle, which returns
\* when every submission of the queue has completed (one queue is modelled).
QueueSubmit(waitIdle) ==
    /\ pending' = IF waitIdle THEN {} ELSE pending \cup {nextSubmit}
    /\ nextSubmit' = nextSubmit + 1

\* Variant of CommandBufferReset_Submit: an assert(IsRecording()) guards
\* the submission.
CommandBufferReset_Submit_Checked(t, cb, waitIdle, fence, submitOk) ==
    /\ Alive /\ Idle(t) /\ cb \in ResetBuffers
    /\ nextSubmit <= MaxSubmits
    /\ IF ~IsRecording(cb)
       THEN /\ aborted' = TRUE
            /\ last' = SubmitRecord(t, cb, waitIdle, fence, submitOk,
                                    "assert")
            /\ UNCHANGED gpuVars
       ELSE IF submitOk
       THEN /\ QueueSubmit(waitIdle)
            /\ submitOf' = [submitOf EXCEPT ![cb] = nextSubmit]
            /\ last' = SubmitRecord(t, cb, waitIdle, fence, submitOk, "ok")
            /\ UNCHANGED aborted
       ELSE /\ last' = SubmitRecord(t, cb, waitIdle, fence, submitOk,
                                    "runtime_error")
            /\ UNCHANGED <<aborted, gpuVars>>
    /\ AttachFence(fence, submitOk)
    /\ UNCHANGED notFenceVars
    /\ UNCHANGED <<NO_VULKAN_CONTEXTS, liveContexts, swapVars, envVars,
                   cmdVars>>

\* Variant of CommandBufferReset_Submit: the handle is freed after the
\* submission, as the OneTime variant does.
CommandBufferReset_Submit_Freeing(t, cb, waitIdle, fence, submitOk) ==
    /\ Alive /\ Idle(t) /\ cb \in ResetBuffers
    /\ nextSubmit <= MaxSubmits
    /\ IF submitOk
       THEN /\ QueueSubmit(waitIdle)
            /\ submitOf' = [submitOf EXCEPT ![cb] = nextSubmit]
            /\ handle' = [handle EXCEPT ![cb] = "freed"]
            /\ last' = SubmitRecord(t, cb, waitIdle, fence, submitOk, "ok")
       ELSE /\ last' = SubmitRecord(t, cb, waitIdle, fence, submitOk,
                                    "runtime_error")
            /\ UNCHANGED <<gpuVars, handle>>
    /\ AttachFence(fence, submitOk)
    /\ UNCHANGED notFenceVars
    /\ UNCHANGED <<ctxVars, swapVars, envVars, m_is_recording>>

\* CommandBufferReset::Submit. There is no check of the recording flag.
CommandBufferReset_Submit(t, cb, waitIdle, fence, submitOk) ==
    /\ Alive /\ Idle(t) /\ cb \in ResetBuffers
    /\ nextSubmit <= MaxSubmits
    /\ IF submitOk
       THEN /\ QueueSubmit(waitIdle)
            /\ submitOf' = [submitOf EXCEPT ![cb] = nextSubmit]
            /\ last' = SubmitRecord(t, cb, waitIdle, fence, submitOk, "ok")
       ELSE /\ last' = SubmitRecord(t, cb, waitIdle, fence, submitOk,
                                    "runtime_error")
            /\ UNCHANGED gpuVars
    /\ AttachFence(fence, submitOk)
    /\ UNCHANGED notFenceVars
    /\ UNCHANGED <<ctxVars, swapVars, envVars, cmdVars>>

\* CommandBufferOneTime::Submit: as above, then vkFreeCommandBuffers, whatever
\* the state of the handle.
CommandBufferOneTime_Submit(t, cb, waitIdle, fence, submitOk) ==
    /\ Alive /\ Idle(t) /\ cb \in OneTimeBuffers
    /\ nextSubmit <= MaxSubmits
    /\ IF submitOk
       THEN /\ QueueSubmit(waitIdle)
            /\ submitOf' = [submitOf EXCEPT ![cb] = nextSubmit]
            /\ handle' = [handle EXCEPT
                              ![cb] = IF @ = "valid" THEN "freed"
                                      ELSE "double_freed"]
            /\ last' = SubmitRecord(t, cb, waitIdle, fence, submitOk, "ok")
       ELSE /\ last' = SubmitRecord(t, cb, waitIdle, fence, submitOk,
                                    "runtime_error")
            /\ UNCHANGED <<gpuVars, handle>>
    /\ AttachFence(fence, submitOk)
    /\ UNCHANGED notFenceVars
    /\ UNCHANGED <<ctxVars, swapVars, envVars, m_is_recording>>

\* ----------------------------------------------------------------- fences
\* The Fence object whose handle the application passes to Submit.
GuardFence == "fence1"

\* The timeout values passed to Fence::Wait, in nanoseconds.
Timeouts == {"0", "1000000", "UINT64_MAX"}

\* The fence is signaled: the submission it was given to has completed.
FenceSignaled == fenceSubmission # 0 /\ fenceSubmission \notin pending

\* Variant of vkWaitForFences: every wait lasts until the fence is signaled.
vkWaitForFences_Unbounded(timeout) ==
    IF FenceSignaled THEN "VK_SUCCESS" ELSE "blocked"

\* vkWaitForFences at the moment it returns: VK_SUCCESS once the fence is
\* signaled, VK_TIMEOUT when the timeout has run out first; a wait without
\* end ("blocked") does not return.
vkWaitForFences(timeout) ==
    IF FenceSignaled THEN "VK_SUCCESS"
    ELSE IF timeout = "UINT64_MAX" THEN "blocked"
    ELSE "VK_TIMEOUT"

\* Fence::Reset
Fence_Reset(t, f) ==
    /\ Alive /\ Idle(t) /\ f = GuardFence /\ syncState[f] = "alive"
    /\ fenceSubmission' = 0
    /\ last' = [op |-> "Reset", outcome |-> "ok"]
    /\ UNCHANGED <<coreVars, notFenceVars>>

\* Fence::Wait: the result of vkWaitForFences is not looked at, and Reset
\* follows whenever reset is set.
Fence_Wait(t, f, reset, timeout) ==
    /\ Alive /\ Idle(t) /\ f = GuardFence /\ syncState[f] = "alive"
    /\ timeout \in Timeouts
    /\ vkWaitForFences(timeout) # "blocked"
    /\ fenceSubmission' = IF reset THEN 0 ELSE fenceSubmission
    /\ last' = [op |-> "Wait", outcome |-> "ok", reset |-> reset,
                timeout |-> timeout, result |-> vkWaitForFences(timeout),
                guarded |-> fenceSubmission,
                guardedPending |-> fenceSubmission \in pending]
    /\ UNCHANGED <<coreVars, notFenceVars>>

\* ---------------------------------------------------------- host writes
\* The Buffers the application allocates and writes.
HostBuffers == DOMAIN m_allocation

\* m_allocation before vmaCreateBuffer has filled it.
NullAllocation == {"VK_NULL_HANDLE"}

\* What the application writes.
HostData == {"data1", "data2"}

\* The VmaAllocationCreateFlags AllocateBuffer derives from its arguments.
AllocationFlags(is_writable, is_readable, is_persistent) ==
    (IF is_writable
     THEN {"VMA_ALLOCATION_CREATE_HOST_ACCESS_SEQUENTIAL_WRITE_BIT"} ELSE {})
    \cup (IF is_readable
          THEN {"VMA_ALLOCATION_CREATE_HOST_ACCESS_RANDOM_BIT"} ELSE {})
    \cup (IF is_persistent THEN {"VMA_ALLOCATION_CREATE_MAPPED_BIT"} ELSE {})

\* VmaAllocation::IsMappingAllowed
IsMappingAllowed(b) ==
    m_allocation[b] \cap
        {"VMA_ALLOCATION_CREATE_HOST_ACCESS_SEQUENTIAL_WRITE_BIT",
         "VMA_ALLOCATION_CREATE_HOST_ACCESS_RANDOM_BIT"} # {}

\* VmaAllocation::IsPersistentMap
IsPersistentMap(b) == "VMA_ALLOCATION_CREATE_MAPPED_BIT" \in m_allocation[b]

\* VulkanMemoryAllocator::AllocateBuffer. allocOk: vmaCreateBuffer succeeds;
\* a persistently mapped allocation is created mapped.
VMA_AllocateBuffer(t, b, is_writable, is_readable, is_persistent, allocOk) ==
    /\ Alive /\ Idle(t) /\ b \in HostBuffers
    /\ m_allocation[b] = NullAllocation
    /\ IF allocOk
       THEN /\ m_allocation' =
                   [m_allocation EXCEPT
                        ![b] = AllocationFlags(is_writable, is_readable,
                                               is_persistent)]
            /\ mapCount' =
                   [mapCount EXCEPT ![b] = IF is_persistent THEN 1 ELSE 0]
            /\ last' = [op |-> "AllocateBuffer", outcome |-> "ok"]
       ELSE /\ UNCHANGED <<m_allocation, mapCount>>
            /\ last' = [op |-> "AllocateBuffer", outcome |-> "runtime_error"]
    /\ UNCHANGED <<bufferMemory, strayWrite>>
    /\ UNCHANGED <<coreVars, notBufVars>>

\* Variant of WriteCalls: the mapping is left in place.
WriteCalls_NoUnmap(b) ==
    IF IsPersistentMap(b) THEN <<"memcpy">>
    ELSE <<"vmaMapMemory", "memcpy">>

\* The native calls of Buffer::Write after its assert, in order.
WriteCalls(b) ==
    IF IsPersistentMap(b) THEN <<"memcpy">>
    ELSE <<"vmaMapMemory", "memcpy", "vmaUnmapMemory">>

\* The mappings held after the calls from call i on. mapOk: vmaMapMemory
\* succeeds (its result is not looked at by Write).
RECURSIVE MapCountAfter(_, _, _, _)
MapCountAfter(calls, i, count, mapOk) ==
    IF i > Len(calls) THEN count
    ELSE MapCountAfter(calls, i + 1,
             IF calls[i] = "vmaMapMemory" /\ mapOk THEN count + 1
             ELSE IF calls[i] = "vmaUnmapMemory" /\ count > 0 THEN count - 1
             ELSE count,
             mapOk)

\* The record of a Write call kept in "last".
BufferWriteRecord(b, data, outcome, calls) ==
    [op |-> "Write", buffer |-> b, data |-> data, outcome |-> outcome,
     calls |-> calls,
     mappingAllowed |-> IsMappingAllowed(b),
     persistent |-> IsPersistentMap(b),
     mapBefore |-> mapCount[b],
     memoryBefore |-> bufferMemory[b]]

\* VMA::Buffer::Write. mapOk: vmaMapMemory succeeds. When it fails,
\* mappedArea stays uninitialized and memcpy writes through it: the process
\* crashes (crash) or some other memory is overwritten.
Buffer_Write(t, b, data, mapOk, crash) ==
    /\ Alive /\ Idle(t) /\ b \in HostBuffers /\ data \in HostData
    /\ m_allocation[b] # NullAllocation
    /\ mapOk \/ ~IsPersistentMap(b)
    /\ crash => ~mapOk
    /\ IF ~IsMappingAllowed(b)
       THEN /\ aborted' = TRUE
            /\ last' = BufferWriteRecord(b, data, "assert", <<>>)
            /\ UNCHANGED <<mapCount, bufferMemory, strayWrite>>
       ELSE IF crash
       THEN /\ aborted' = TRUE
            /\ last' = BufferWriteRecord(b, data, "crash",
                                         <<"vmaMapMemory", "memcpy">>)
            /\ UNCHANGED <<mapCount, bufferMemory, strayWrite>>
       ELSE /\ mapCount' =
                   [mapCount EXCEPT
                        ![b] = MapCountAfter(WriteCalls(b), 1, @, mapOk)]
            /\ bufferMemory' =
                   [bufferMemory EXCEPT ![b] = IF mapOk THEN data ELSE @]
            /\ strayWrite' = (strayWrite \/ ~mapOk)
            /\ last' = BufferWriteRecord(b, data, "ok", WriteCalls(b))
            /\ UNCHANGED aborted
    /\ UNCHANGED m_allocation
    /\ UNCHANGED <<NO_VULKAN_CONTEXTS, liveContexts, swapVars, envVars,
                   gpuVars, cmdVars, notBufVars>>

\* ------------------------------------------------------- descriptor sets
MaxDescBinding == 2

MaxWriteImages == 2

\* The images the application writes into the descriptor set.
DescImages == DOMAIN m_image_sampler

DescBindings == 0..MaxDescBinding

\* VMA::Image::BindSampler; the application may pass a null pointer.
Image_BindSampler(t, img, sampler) ==
    /\ Alive /\ Idle(t) /\ img \in DescImages
    /\ sampler \in {"nullptr", "sampler"}
    /\ m_image_sampler' = [m_image_sampler EXCEPT ![img] = sampler]
    /\ last' = [op |-> "BindSampler", outcome |-> "ok"]
    /\ UNCHANGED m_descriptor_set
    /\ UNCHANGED <<coreVars, notDescVars>>

\* assert(m_image_sampler != nullptr) in VMA::Image::GetImageSampler; the
\* handle of a Sampler object is never null (its constructor throws instead),
\* so the caller's assert on the returned handle adds nothing.
GetImageSamplerPrecondition(img) == m_image_sampler[img] # "nullptr"

\* The record of a WriteImage / WriteImages call kept in "last".
WriteRecord(op, data, outcome) ==
    [op |-> op, outcome |-> outcome, data |-> data,
     unsampled |-> \E i \in DOMAIN data : ~GetImageSamplerPrecondition(data[i]),
     before |-> m_descriptor_set]

\* vkUpdateDescriptorSets: every write of the array is applied.
RECURSIVE vkUpdateDescriptorSets(_, _, _)
vkUpdateDescriptorSets(set, writes, i) ==
    IF i > Len(writes) THEN set
    ELSE vkUpdateDescriptorSets(
             [set EXCEPT ![writes[i].dstBinding] = writes[i].image],
             writes, i + 1)

\* DescriptorSet::WriteImage
DescriptorSet_WriteImage(t, image_binding, data) ==
    /\ Alive /\ Idle(t)
    /\ image_binding \in DescBindings /\ data \in DescImages
    /\ IF ~GetImageSamplerPrecondition(data)
       THEN /\ aborted' = TRUE
            /\ last' = WriteRecord("WriteImage", <<data>>, "assert")
            /\ UNCHANGED m_descriptor_set
       ELSE /\ m_descriptor_set' =
                   vkUpdateDescriptorSets(m_descriptor_set,
                       <<[dstBinding |-> image_binding, image |-> data]>>, 1)
            /\ last' = WriteRecord("WriteImage", <<data>>, "ok")
            /\ UNCHANGED aborted
    /\ UNCHANGED m_image_sampler
    /\ UNCHANGED <<NO_VULKAN_CONTEXTS, liveContexts, swapVars, envVars,
                   gpuVars, cmdVars, notDescVars>>

\* The loop of WriteImages from image i on: the writes prepared, and whether
\* an assert stopped the loop.
RECURSIVE PrepareWrites(_, _, _, _)
PrepareWrites(data, offset, i, writes) ==
    IF i > Len(data) THEN [asserted |-> FALSE, writes |-> writes]
    ELSE IF ~GetImageSamplerPrecondition(data[i])
    THEN [asserted |-> TRUE, writes |-> writes]
    ELSE PrepareWrites(data, offset, i + 1,
             Append(writes,
                    [dstBinding |-> (i - 1) + offset, image |-> data[i]]))

\* Variant of WrittenSet: the writes prepared before the assert are applied.
WrittenSet_Partial(prepared) ==
    vkUpdateDescriptorSets(m_descriptor_set, prepared.writes, 1)

\* The bindings after WriteImages: the single vkUpdateDescriptorSets call
\* follows the loop, so an assert inside the loop leaves the set as it was.
WrittenSet(prepared) ==
    IF prepared.asserted THEN m_descriptor_set
    ELSE vkUpdateDescriptorSets(m_descriptor_set, prepared.writes, 1)

\* DescriptorSet::WriteImages: image i of data goes to binding i + offset.
DescriptorSet_WriteImages(t, data, offset) ==
    /\ Alive /\ Idle(t)
    /\ Len(data) \in 1..MaxWriteImages
    /\ \A i \in DOMAIN data :
           data[i] \in DescImages /\ (i - 1) + offset \in DescBindings
    /\ LET prepared == PrepareWrites(data, offset, 1, <<>>)
       IN  /\ m_descriptor_set' = WrittenSet(prepared)
           /\ aborted' = (aborted \/ prepared.asserted)
           /\ last' = WriteRecord("WriteImages", data,
                          IF prepared.asserted THEN "assert" ELSE "ok")
    /\ UNCHANGED m_image_sampler
    /\ UNCHANGED <<NO_VULKAN_CONTEXTS, liveContexts, swapVars, envVars,
                   gpuVars, cmdVars, notDescVars>>

\* ------------------------------------------------ pipeline-layout deduction
MaxSetIndex == 1

MaxBindingIndex == 1

\* The (set, binding) pairs a shader stage can declare.
BindingPairs == (0..MaxSetIndex) \X (0..MaxBindingIndex)

VK_SHADER_STAGE_VERTEX_BIT == 1

VK_SHADER_STAGE_FRAGMENT_BIT == 16

\* Variant of BitOr: the later stage replaces the earlier one.
BitOr_Overwrite(a, b) == b

\* a | b on unsigned integers.
RECURSIVE BitOr(_, _)
BitOr(a, b) ==
    IF a = 0 THEN b
    ELSE IF b = 0 THEN a
    ELSE (IF a % 2 = 1 \/ b % 2 = 1 THEN 1 ELSE 0)
         + 2 * BitOr(a \div 2, b \div 2)

\* The reflection of one stage: a DescriptorBinding per declared pair, with
\* the stage's flag, in the order the reflection enumerates them.
RECURSIVE ReflectStage(_, _)
ReflectStage(pairs, stage) ==
    IF pairs = {} THEN <<>>
    ELSE LET p == CHOOSE x \in pairs :
                      \A y \in pairs :
                          x[1] < y[1] \/ (x[1] = y[1] /\ x[2] <= y[2])
         IN  <<[set |-> p[1], binding |-> p[2], stages |-> stage]>>
             \o ReflectStage(pairs \ {p}, stage)

\* The comparator given to std::sort: descending set, then descending binding.
SortsBefore(prev, next) ==
    IF next.set # prev.set THEN next.set < prev.set
    ELSE next.binding < prev.binding

\* One element put into a sorted sequence. std::sort leaves the order of
\* equivalent elements open: tieFront puts x in front of its equivalents.
RECURSIVE SortedInsert(_, _, _)
SortedInsert(x, sorted, tieFront) ==
    IF sorted = <<>> THEN <<x>>
    ELSE IF SortsBefore(x, Head(sorted))
            \/ (tieFront /\ ~SortsBefore(Head(sorted), x))
    THEN <<x>> \o sorted
    ELSE <<Head(sorted)>> \o SortedInsert(x, Tail(sorted), tieFront)

\* std::sort(descriptor_set_layout_bindings) with the comparator above.
RECURSIVE SortBindings(_, _)
SortBindings(bindings, tieFront) ==
    IF bindings = <<>> THEN <<>>
    ELSE SortedInsert(Head(bindings),
                      SortBindings(Tail(bindings), tieFront), tieFront)

\* DescriptorBinding::operator VkDescriptorSetLayoutBinding
LayoutBinding(b) == [binding |-> b.binding, stageFlags |-> b.stages]

\* The loop over the sorted bindings: the first binding of a set opens its
\* list, a binding equal to the last one of the list merges its stages into
\* it, any other binding is appended.
RECURSIVE MergeBindings(_, _, _)
MergeBindings(bindings, i, sets) ==
    IF i > Len(bindings) THEN sets
    ELSE LET currentBinding == bindings[i]
             currentSet == sets[currentBinding.set]
             merged ==
                 IF currentSet = <<>>
                 THEN <<LayoutBinding(currentBinding)>>
                 ELSE IF currentBinding.binding
                             = currentSet[Len(currentSet)].binding
                 THEN [currentSet EXCEPT
                           ![Len(currentSet)].stageFlags =
                               BitOr(@, currentBinding.stages)]
                 ELSE Append(currentSet, LayoutBinding(currentBinding))
         IN  MergeBindings(bindings, i + 1,
                           [sets EXCEPT ![currentBinding.set] = merged])

\* The descriptor part of deduce_pipeline_states_from_shaders: one binding
\* list per set index below max_set; no list at all without bindings.
DeducedSets(vertex, fragment, tieFront) ==
    LET descriptor_set_layout_bindings ==
            SortBindings(
                ReflectStage(vertex, VK_SHADER_STAGE_VERTEX_BIT)
                \o ReflectStage(fragment, VK_SHADER_STAGE_FRAGMENT_BIT),
                tieFront)
    IN  IF descriptor_set_layout_bindings = <<>> THEN <<>>
        ELSE LET max_set == descriptor_set_layout_bindings[1].set + 1
             IN  MergeBindings(descriptor_set_layout_bindings, 1,
                               [set \in 0..(max_set - 1) |-> <<>>])

MaxPushOffsets == 1

MaxPushSizes == 1

\* The (offset, size) ranges a shader stage can declare, in bytes.
PushRanges ==
    {16 * o : o \in 0..MaxPushOffsets} \X {16 * (z + 1) : z \in 0..MaxPushSizes}

\* The push constants reflected from one stage, each with the stage's flag.
RECURSIVE ReflectPushConstants(_, _)
ReflectPushConstants(ranges, stage) ==
    IF ranges = {} THEN <<>>
    ELSE LET p == CHOOSE x \in ranges :
                      \A y \in ranges :
                          x[1] < y[1] \/ (x[1] = y[1] /\ x[2] <= y[2])
         IN  <<[offset |-> p[1], size |-> p[2], stageFlags |-> stage]>>
             \o ReflectPushConstants(ranges \ {p}, stage)

\* The comparator given to std::sort for push constants: ascending offset,
\* then ascending size.
PushSortsBefore(next, prev) ==
    IF next.offset = prev.offset THEN next.size < prev.size
    ELSE next.offset < prev.offset

\* One range put into a sorted sequence; tieFront as in SortedInsert.
RECURSIVE SortedInsertPush(_, _, _)
SortedInsertPush(x, sorted, tieFront) ==
    IF sorted = <<>> THEN <<x>>
    ELSE IF PushSortsBefore(x, Head(sorted))
            \/ (tieFront /\ ~PushSortsBefore(Head(sorted), x))
    THEN <<x>> \o sorted
    ELSE <<Head(sorted)>> \o SortedInsertPush(x, Tail(sorted), tieFront)

\* std::sort(push_constants) with the comparator above.
RECURSIVE SortPushConstants(_, _)
SortPushConstants(ranges, tieFront) ==
    IF ranges = <<>> THEN <<>>
    ELSE SortedInsertPush(Head(ranges),
                          SortPushConstants(Tail(ranges), tieFront), tieFront)

\* Variant of MergePushConstants: the stages are merged into the last range
\* of the result.
RECURSIVE MergePushConstants_IntoResult(_, _, _)
MergePushConstants_IntoResult(source, i, pushConstants) ==
    IF i > Len(source) THEN pushConstants
    ELSE LET prevPushConstant == pushConstants[Len(pushConstants)]
             curPushConstant == source[i]
         IN  IF curPushConstant.offset = prevPushConstant.offset
                /\ curPushConstant.size = prevPushConstant.size
             THEN MergePushConstants_IntoResult(source, i + 1,
                      [pushConstants EXCEPT
                           ![Len(pushConstants)].stageFlags =
                               BitOr(@, curPushConstant.stageFlags)])
             ELSE MergePushConstants_IntoResult(source, i + 1,
                      Append(pushConstants, curPushConstant))

\* The loop over the sorted ranges, from the second one on. source is
\* *push_constants, which the loop reads and writes; pushConstants is the
\* local result, which starts as a copy of the first range. A range equal to
\* its predecessor in source ORs its stages into that predecessor, in
\* source; any other range is copied to the result.
RECURSIVE MergePushConstants(_, _, _)
MergePushConstants(source, i, pushConstants) ==
    IF i > Len(source) THEN pushConstants
    ELSE LET prevPushConstant == source[i - 1]
             curPushConstant == source[i]
         IN  IF curPushConstant.offset = prevPushConstant.offset
                /\ curPushConstant.size = prevPushConstant.size
             THEN MergePushConstants(
                      [source EXCEPT
                           ![i - 1].stageFlags =
                               BitOr(@, curPushConstant.stageFlags)],
                      i + 1, pushConstants)
             ELSE MergePushConstants(source, i + 1,
                                     Append(pushConstants, curPushConstant))

\* The push-constant part of deduce_pipeline_states_from_shaders: the result
\* that is swapped into *push_constants.
DeducedPushConstants(vertex, fragment, tieFront) ==
    LET sorted ==
            SortPushConstants(
                ReflectPushConstants(vertex, VK_SHADER_STAGE_VERTEX_BIT)
                \o ReflectPushConstants(fragment,
                                        VK_SHADER_STAGE_FRAGMENT_BIT),
                tieFront)
    IN  IF sorted = <<>> THEN <<>>
        ELSE MergePushConstants(sorted, 2, <<sorted[1]>>)

\* GraphicsPipeline::deduce_pipeline_states_from_shaders with a non-null
\* descriptor_set_layouts and a non-null push_constants. nativeOk: the reflection calls and every
\* vkCreateDescriptorSetLayout succeed; otherwise the call throws.
deduce_pipeline_states_from_shaders(t, tieFront, nativeOk) ==
    /\ Alive /\ Idle(t)
    /\ deduceOutcome = "none"
    /\ IF nativeOk
       THEN /\ descriptorSets' =
                   DeducedSets(vertex_shader, fragment_shader, tieFront)
            /\ push_constants' =
                   DeducedPushConstants(vertex_push_constants,
                                        fragment_push_constants, tieFront)
            /\ deduceOutcome' = "ok"
       ELSE /\ deduceOutcome' = "runtime_error"
            /\ UNCHANGED <<descriptorSets, push_constants>>
    /\ last' = [op |-> "deduce_pipeline_states_from_shaders",
                outcome |-> deduceOutcome']
    /\ UNCHANGED <<vertex_shader, fragment_shader, vertex_push_constants,
                   fragment_push_constants>>
    /\ UNCHANGED <<coreVars, notLayoutVars>>

\* ------------------------------------------------------------ ownership
MaxHolders == 2

MaxRefs == 2

\* The Buffers and Images of the program. "depth" is the depth/stencil image
\* the context allocates for itself in create_swap_chain.
UserResources == {"buffer", "image"}

Resources == UserResources \cup {"depth"}

\* The ownership state as one value.
OwnState ==
    [ext |-> externalHolders, ctx |-> contextState,
     member |-> m_memory_allocator, alloc |-> allocatorState,
     refs |-> resourceRefs, state |-> resourceState, count |-> releaseCount,
     made |-> initialized, log |-> released]

\* Command pools held in the context's two global caches.
CachedPoolCount ==
    Cardinality({k \in DOMAIN m_global_onetime_command_pools :
                     m_global_onetime_command_pools[k] # 0})
    + Cardinality({k \in DOMAIN m_global_resetable_command_pools :
                       m_global_resetable_command_pools[k] # 0})

\* use_count of the context: the application's pointers, the allocator's
\* m_context and the m_context of every cached command pool.
ContextRefs(o, pools) ==
    o.ext + (IF o.alloc = "alive" THEN 1 ELSE 0) + pools

\* use_count of the allocator: the context's member and the m_parent of every
\* Buffer / Image.
AllocatorRefs(o) ==
    (IF o.member = "set" THEN 1 ELSE 0)
    + Cardinality({r \in Resources : o.state[r] = "alive"})

\* Variant of LastReference: every release destroys the object.
LastReference_Any(n) == TRUE

\* shared_ptr runs the destructor when the count reaches zero.
LastReference(n) == n = 0

\* The objects the steps of VulkanContext::Create make, in call order
\* (enable_validation_layers makes none).
InitOrder ==
    <<"instance", "debug_messenger", "surface", "physical_device",
      "logical_device", "allocator", "swapchain">>

\* How many of them exist when step failAt of CreateSteps throws (0: none
\* throws).
MadeBy(failAt) ==
    IF failAt = 0 THEN Len(InitOrder)
    ELSE IF failAt < 2 THEN 0 ELSE failAt - 2

\* The body of ~VulkanContext: destroy_swap_chain, destroy_memory_allocator,
\* destroy_logical_device, destroy_surface, destroy_debug_messenger,
\* destroy_vulkan_instance.
DestructorBody ==
    <<"swapchain", "allocator", "logical_device", "surface",
      "debug_messenger", "instance">>

\* m_memory_allocator.reset() destroys the allocator when the member holds
\* the only reference to it.
AllocatorDiesAtReset(o) ==
    /\ o.alloc = "alive" /\ o.member = "set"
    /\ LastReference(AllocatorRefs(o) - 1)

\* What the body of ~VulkanContext releases, in order: the objects that
\* exist, the allocator only when the reset drops its last reference.
BodyReleases(o) ==
    SelectSeq(DestructorBody,
              LAMBDA x : IF x = "allocator" THEN AllocatorDiesAtReset(o)
                         ELSE \E i \in 1..Len(o.made) : o.made[i] = x)

\* ~VulkanContext, then the destruction of the members: the allocator member
\* is reset, the device destroyed, the depth image member dropped.
ContextDestructor(o) ==
    [o EXCEPT !.ctx = "destroyed", !.member = "null",
              !.refs = [@ EXCEPT !["depth"] = 0],
              !.alloc = IF AllocatorDiesAtReset(o) THEN "destroyed" ELSE @,
              !.log = @ \o BodyReleases(o)]

\* ~Buffer / ~Image: the native handles are destroyed, m_parent is dropped.
ResourceDestructor(o, r) ==
    [o EXCEPT !.state = [@ EXCEPT ![r] = "destroyed"],
              !.count = [@ EXCEPT ![r] = @ + 1]]

\* ~VulkanMemoryAllocator: vmaDestroyAllocator, then m_context is dropped.
AllocatorDestructor(o) ==
    [o EXCEPT !.alloc = "destroyed", !.log = Append(@, "allocator")]

\* Every destructor that a dropped reference sets off, until none is left.
RECURSIVE Settle(_, _)
Settle(o, pools) ==
    IF o.ctx = "alive" /\ LastReference(ContextRefs(o, pools))
    THEN Settle(ContextDestructor(o), 0)
    ELSE IF \E r \in Resources :
                o.state[r] = "alive" /\ LastReference(o.refs[r])
    THEN Settle(ResourceDestructor(o,
                    CHOOSE r \in Resources :
                        o.state[r] = "alive" /\ LastReference(o.refs[r])),
                pools)
    ELSE IF o.alloc = "alive" /\ LastReference(AllocatorRefs(o))
    THEN Settle(AllocatorDestructor(o), pools)
    ELSE o

\* The next ownership state is o.
SetOwn(o) ==
    /\ externalHolders' = o.ext
    /\ contextState' = o.ctx
    /\ m_memory_allocator' = o.member
    /\ allocatorState' = o.alloc
    /\ resourceRefs' = o.refs
    /\ resourceState' = o.state
    /\ releaseCount' = o.count
    /\ initialized' = o.made
    /\ released' = o.log

\* The ownership a VulkanContext::Create call leaves behind. The new context
\* is held by the local vulkan_context; create_memory_allocator (step 7) makes
\* the allocator, which keeps a shared_ptr to the context; create_swap_chain
\* (step 8) allocates the depth image. A throw drops the local pointer, a
\* return hands it to the caller.
CreatedOwn(failAt) ==
    LET made == failAt = 0 \/ failAt > 7
    IN  Settle([ext |-> IF failAt = 0 THEN 1 ELSE 0,
                ctx |-> "alive",
                member |-> IF made THEN "set" ELSE "null",
                alloc |-> IF made THEN "alive" ELSE "unborn",
                refs |-> [resourceRefs EXCEPT
                              !["depth"] = IF failAt = 0 THEN 1 ELSE 0],
                state |-> [resourceState EXCEPT
                               !["depth"] =
                                   IF failAt = 0 THEN "alive" ELSE "unborn"],
                count |-> releaseCount,
                made |-> SubSeq(InitOrder, 1, MadeBy(failAt)),
                log |-> <<>>],
               0)

\* The record of an ownership call kept in "last".
OwnRecord(op, r, outcome) ==
    [op |-> op, resource |-> r, outcome |-> outcome,
     holdersBefore |-> externalHolders]

\* The application copies its shared_ptr<VulkanContext>.
Context_Share(t) ==
    /\ Alive /\ Idle(t)
    /\ externalHolders > 0 /\ externalHolders < MaxHolders
    /\ externalHolders' = externalHolders + 1
    /\ last' = OwnRecord("ShareContext", "none", "ok")
    /\ UNCHANGED <<contextState, m_memory_allocator, allocatorState,
                   resourceRefs, resourceState, releaseCount, initialized,
                   released>>
    /\ UNCHANGED <<coreVars, notOwnVars>>

\* The application drops one shared_ptr<VulkanContext>.
Context_Release(t) ==
    /\ ~aborted /\ Idle(t)
    /\ externalHolders > 0
    /\ SetOwn(Settle([OwnState EXCEPT !.ext = @ - 1], CachedPoolCount))
    /\ last' = OwnRecord("ReleaseContext", "none", "ok")
    /\ UNCHANGED <<coreVars, notOwnVars>>

\* VulkanMemoryAllocator::AllocateBuffer / AllocateImage, called through the
\* context's m_memory_allocator. allocOk: the native creation succeeds;
\* otherwise the object made by make_shared dies with null handles and the
\* call throws.
Allocator_Allocate(t, r, allocOk) ==
    /\ Alive /\ Idle(t) /\ r \in UserResources
    /\ externalHolders > 0 /\ m_memory_allocator = "set"
    /\ resourceState[r] = "unborn"
    /\ IF allocOk
       THEN /\ resourceRefs' = [resourceRefs EXCEPT ![r] = 1]
            /\ resourceState' = [resourceState EXCEPT ![r] = "alive"]
            /\ last' = OwnRecord("Allocate", r, "ok")
       ELSE /\ UNCHANGED <<resourceRefs, resourceState>>
            /\ last' = OwnRecord("Allocate", r, "runtime_error")
    /\ UNCHANGED <<externalHolders, contextState, m_memory_allocator,
                   allocatorState, releaseCount, initialized, released>>
    /\ UNCHANGED <<coreVars, notOwnVars>>

\* The application copies a shared_ptr<Buffer> / shared_ptr<Image>.
Resource_Share(t, r) ==
    /\ ~aborted /\ Idle(t) /\ r \in UserResources
    /\ resourceState[r] = "alive" /\ resourceRefs[r] < MaxRefs
    /\ resourceRefs' = [resourceRefs EXCEPT ![r] = @ + 1]
    /\ last' = OwnRecord("ShareResource", r, "ok")
    /\ UNCHANGED <<externalHolders, contextState, m_memory_allocator,
                   allocatorState, resourceState, releaseCount, initialized,
                   released>>
    /\ UNCHANGED <<coreVars, notOwnVars>>

\* Variant of Resource_Release: every release runs the destructor.
Resource_Release_Eager(t, r) ==
    /\ ~aborted /\ Idle(t) /\ r \in UserResources
    /\ resourceState[r] = "alive" /\ resourceRefs[r] > 0
    /\ SetOwn(Settle(ResourceDestructor(
                         [OwnState EXCEPT !.refs = [@ EXCEPT ![r] = @ - 1]],
                         r),
                     CachedPoolCount))
    /\ last' = OwnRecord("ReleaseResource", r, "ok")
    /\ UNCHANGED <<coreVars, notOwnVars>>

\* The application drops one shared_ptr<Buffer> / shared_ptr<Image>.
Resource_Release(t, r) ==
    /\ ~aborted /\ Idle(t) /\ r \in UserResources
    /\ resourceState[r] = "alive" /\ resourceRefs[r] > 0
    /\ SetOwn(Settle([OwnState EXCEPT !.refs = [@ EXCEPT ![r] = @ - 1]],
                     CachedPoolCount))
    /\ last' = OwnRecord("ReleaseResource", r, "ok")
    /\ UNCHANGED <<coreVars, notOwnVars>>

\* ------------------------------------------------------ physical device
MaxDevices == 2
MaxFamilies == 2

\* What a queue family can do: its queueFlags, and presenting to the surface
\* (compute and sparse binding are looked at too, and required by nothing).
QueueCaps == {"graphics", "transfer", "present"}

\* The queue families a device reports, in index order.
FamilyLists == UNION {[1..n -> SUBSET QueueCaps] : n \in 0..MaxFamilies}

\* m_device_extensions, and the extensions a device can offer.
RequiredExtensions == {"VK_KHR_swapchain"}
DeviceExtensions == {"VK_KHR_swapchain", "VK_EXT_debug_marker"}

\* The physical device with handle h, as the driver can describe it.
Devices(h) ==
    [handle : {h},
     deviceType : {"DISCRETE_GPU", "INTEGRATED_GPU"},
     samplerAnisotropy : BOOLEAN,
     families : FamilyLists,
     extensions : SUBSET DeviceExtensions,
     formatCount : 0..1,
     presentModeCount : 0..1]

\* No device: VK_NULL_HANDLE.
NoDevice ==
    [handle |-> 0, deviceType |-> "INTEGRATED_GPU",
     samplerAnisotropy |-> FALSE, families |-> <<>>, extensions |-> {},
     formatCount |-> 0, presentModeCount |-> 0]

\* Every capability the loop resolves an index for.
AllQueueCaps == QueueCaps \cup {"compute", "sparsebinding"}

\* The lists vkGetPhysicalDeviceQueueFamilyProperties can fill in.
MaxQueueFamilies == 3
QueueFamilyLists ==
    UNION {[1..n -> SUBSET AllQueueCaps] : n \in 0..MaxQueueFamilies}

\* The queue family indices without a value.
NoQueueFamilies ==
    [graphics |-> -1, compute |-> -1, transfer |-> -1, sparsebinding |-> -1,
     present |-> -1]

\* The first family found for each capability that has no value yet.
FirstFound(q, caps, idx) ==
    [c \in AllQueueCaps |-> IF c \in caps /\ q[c] = -1 THEN idx ELSE q[c]]

\* Variant of the pass over one family: graphics and present are left where
\* they were first found.
ResolveFamily_NoCoalesce(q, caps, idx) ==
    LET q1 == FirstFound(q, caps, idx)
    IN  IF "transfer" \in caps /\ q1.transfer = q1.graphics
        THEN [q1 EXCEPT !.transfer = idx]
        ELSE q1

\* Variant of the pass over one family: transfer is left where it was first
\* found.
ResolveFamily_KeepTransfer(q, caps, idx) ==
    LET q1 == FirstFound(q, caps, idx)
    IN  IF /\ "graphics" \in caps /\ "present" \in caps
           /\ q1.graphics # q1.present
        THEN [q1 EXCEPT !.graphics = idx, !.present = idx]
        ELSE q1

\* check_physical_device_features_support
check_physical_device_features_support(d) ==
    d.deviceType = "DISCRETE_GPU" /\ d.samplerAnisotropy

\* One pass of the loop over the queue families (idx counts from 0).
ResolveFamily(q, caps, idx) ==
    LET q1 == FirstFound(q, caps, idx)
        q2 == IF /\ "graphics" \in caps /\ "present" \in caps
                 /\ q1.graphics # q1.present
              THEN [q1 EXCEPT !.graphics = idx, !.present = idx]
              ELSE q1
    IN  IF "transfer" \in caps /\ q2.transfer = q2.graphics
        THEN [q2 EXCEPT !.transfer = idx]
        ELSE q2

\* The loop over the families from position i on.
RECURSIVE ResolveFamilies(_, _, _)
ResolveFamilies(q, families, i) ==
    IF i > Len(families) THEN q
    ELSE ResolveFamilies(ResolveFamily(q, families[i], i - 1), families,
                         i + 1)

\* The indices check_physical_device_queue_families_support leaves behind.
ResolvedFamilies(d) == ResolveFamilies(NoQueueFamilies, d.families, 1)

\* check_physical_device_queue_families_support: every required family has
\* a value.
check_physical_device_queue_families_support(d) ==
    LET q == ResolvedFamilies(d)
    IN  q.graphics # -1 /\ q.transfer # -1 /\ q.present # -1

\* check_physical_device_extensions_support: what is left of the required
\* names once every available one is erased.
check_physical_device_extensions_support(d) ==
    RequiredExtensions \ d.extensions = {}

\* The member list after a query that reports count entries: resized only
\* when the count is not zero.
Queried(list, count) == IF count # 0 THEN count ELSE list

\* Variant of check_physical_device_surface_support: the lists are those of
\* the device examined.
check_physical_device_surface_support_Fresh(d) ==
    d.formatCount # 0 /\ d.presentModeCount # 0

\* check_physical_device_surface_support
check_physical_device_surface_support(d) ==
    /\ Queried(m_surface_formats, d.formatCount) # 0
    /\ Queried(m_surface_present_modes, d.presentModeCount) # 0

\* The three checks made before the surface is looked at.
PassesFirstChecks(d) ==
    /\ check_physical_device_features_support(d)
    /\ check_physical_device_queue_families_support(d)
    /\ check_physical_device_extensions_support(d)

\* The condition of the selection loop.
IsSuitable(d) ==
    PassesFirstChecks(d) /\ check_physical_device_surface_support(d)

\* The device passes the feature check, has a graphics, a transfer and a
\* present family, offers the required extensions and has surface formats
\* and present modes.
Qualifies(d) ==
    /\ d.deviceType = "DISCRETE_GPU" /\ d.samplerAnisotropy
    /\ \A c \in QueueCaps :
           \E i \in 1..Len(d.families) : c \in d.families[i]
    /\ RequiredExtensions \subseteq d.extensions
    /\ d.formatCount > 0 /\ d.presentModeCount > 0

\* vkGetPhysicalDeviceQueueFamilyProperties and, per family,
\* vkGetPhysicalDeviceSurfaceSupportKHR: what the driver says of the device.
vkGetPhysicalDeviceQueueFamilyProperties ==
    /\ ~aborted /\ familiesChecked = "none"
    /\ \E families \in QueueFamilyLists : queueFamilies' = families
    /\ familiesChecked' = "queried"
    /\ UNCHANGED <<coreVars, last, notFamVars>>

\* check_physical_device_queue_families_support: the indices are reset, the
\* loop runs over the families, the required ones are tested.
queue_families_support ==
    /\ ~aborted /\ familiesChecked = "queried"
    /\ LET q == ResolveFamilies(NoQueueFamilies, queueFamilies, 1)
       IN  /\ m_device_queue_family' = q
           /\ familiesChecked' =
                  IF q.graphics # -1 /\ q.transfer # -1 /\ q.present # -1
                  THEN "true" ELSE "false"
    /\ UNCHANGED <<phyDevCnt, deviceIndex, m_physical_device, selectedDevice,
                   m_surface_formats, m_surface_present_modes, deviceOutcome,
                   skippedQualified, queueFamilies>>
    /\ UNCHANGED <<coreVars, last, imgVars, poolVars, syncVars, ownVars,
                   layoutVars, descVars, bufVars, fenceVars, surfVars,
                   frameVars, copyVars, raceVars>>

\* create_physical_device up to the loop: the devices are enumerated.
create_physical_device_enumerate(n) ==
    /\ ~aborted /\ deviceOutcome = "none"
    /\ n \in 0..MaxDevices
    /\ phyDevCnt' = n
    /\ deviceOutcome' = IF n = 0 THEN "runtime_error" ELSE "running"
    /\ UNCHANGED <<deviceIndex, m_physical_device, selectedDevice,
                   m_device_queue_family, m_surface_formats,
                   m_surface_present_modes, skippedQualified>>
    /\ UNCHANGED <<coreVars, last, notDevVars>>

\* One iteration of the loop on the next device d, and what follows the
\* loop when it was the last one.
create_physical_device_examine(d) ==
    /\ ~aborted /\ deviceOutcome = "running"
    /\ deviceIndex < phyDevCnt
    /\ d \in Devices(deviceIndex + 1)
    /\ deviceIndex' = deviceIndex + 1
    /\ m_physical_device' = d.handle
    /\ selectedDevice' = IF IsSuitable(d) THEN d ELSE selectedDevice
    /\ m_device_queue_family' =
           IF check_physical_device_features_support(d)
           THEN ResolvedFamilies(d) ELSE m_device_queue_family
    /\ m_surface_formats' =
           IF PassesFirstChecks(d)
           THEN Queried(m_surface_formats, d.formatCount)
           ELSE m_surface_formats
    /\ m_surface_present_modes' =
           IF PassesFirstChecks(d)
           THEN Queried(m_surface_present_modes, d.presentModeCount)
           ELSE m_surface_present_modes
    /\ deviceOutcome' = IF IsSuitable(d) THEN "selected"
                        ELSE IF deviceIndex + 1 = phyDevCnt
                        THEN "runtime_error"
                        ELSE "running"
    /\ skippedQualified' = (skippedQualified
                            \/ (Qualifies(d) /\ ~IsSuitable(d)))
    /\ UNCHANGED phyDevCnt
    /\ UNCHANGED <<coreVars, last, notDevVars>>

\* ------------------------------------------------ surface and swapchain
\* Largest width or height, and largest minImageCount, a surface reports.
MaxExtent == 2
MaxMinImages == 2
MaxExtraImages == 1

\* currentExtent of a surface that leaves the extent to the application:
\* 0xFFFFFFFF, written as the 32-bit two's-complement number it is.
SPECIAL_VALUE_OF_WINDOW_MANAGER == -1

Extents == (0..MaxExtent) \X (0..MaxExtent)

\* The surface of the specifications that do not look at these values.
InitSurfaceFixed ==
    /\ surfaceCapabilities = [minImageCount |-> 2, maxImageCount |-> 0,
                              minImageExtent |-> <<1, 1>>,
                              maxImageExtent |-> <<1, 1>>,
                              currentExtent |-> <<1, 1>>]
    /\ windowSize = <<1, 1>>
    /\ extraImages = 0

\* current_surface_capabilities.currentExtent
CurrentExtent ==
    IF surfaceSpecial
    THEN <<SPECIAL_VALUE_OF_WINDOW_MANAGER, SPECIAL_VALUE_OF_WINDOW_MANAGER>>
    ELSE surfaceCapabilities.currentExtent

\* The test that sends create_swap_chain to the framebuffer size.
ExtentLeftToApplication ==
    CurrentExtent[2] = SPECIAL_VALUE_OF_WINDOW_MANAGER

\* std::clamp(v, lo, hi) as the standard libraries compute it.
std_clamp(v, lo, hi) == IF v < lo THEN lo ELSE IF hi < v THEN hi ELSE v

\* std::clamp requires !(hi < lo); otherwise its behaviour is undefined:
\* libraries built with assertions end the process, the others return hi.
ClampPrecondition(lo, hi) == ~(hi < lo)

\* The framebuffer size clamped to the range of the surface.
ClampedExtent ==
    <<std_clamp(windowSize[1], surfaceCapabilities.minImageExtent[1],
                surfaceCapabilities.maxImageExtent[1]),
      std_clamp(windowSize[2], surfaceCapabilities.minImageExtent[2],
                surfaceCapabilities.maxImageExtent[2])>>

\* Variant of ChosenExtent: the framebuffer size is stored as polled.
ChosenExtent_Unclamped ==
    IF ExtentLeftToApplication THEN windowSize ELSE CurrentExtent

\* m_swapchain_current_extent as create_swap_chain chooses it, once the
\* framebuffer size read is not zero.
ChosenExtent ==
    IF ExtentLeftToApplication THEN ClampedExtent ELSE CurrentExtent

\* Variant of RequestedImageCount: maxImageCount is not looked at.
RequestedImageCount_Unclamped ==
    surfaceCapabilities.minImageCount + 1

\* m_swapchain_image_count as passed to vkCreateSwapchainKHR.
RequestedImageCount ==
    LET count == surfaceCapabilities.minImageCount + 1
    IN  IF surfaceCapabilities.maxImageCount # 0
        THEN std_clamp(count, count, surfaceCapabilities.maxImageCount)
        ELSE count

\* Whether the std::clamp of the image count ends the process.
ImageCountCrashes ==
    IF /\ surfaceCapabilities.maxImageCount # 0
       /\ ~ClampPrecondition(surfaceCapabilities.minImageCount + 1,
                             surfaceCapabilities.maxImageCount)
    THEN BOOLEAN ELSE {FALSE}

\* The depth/stencil images that exist when AllocateImage has returned the
\* new one and the assignment has not yet released the one the member holds.
DepthImagesAfterAllocate ==
    (IF resourceState["depth"] = "alive" THEN 1 ELSE 0) + 1

\* The create info is filled in; queried: vkGetSwapchainImagesKHR has
\* stored the number of images the swapchain has.
\* m_swapchain_imageviews after every vkCreateImageView has succeeded.
LiveViews(n) == [i \in 1..n |-> "live"]

\* m_swapchain_imageviews after resize(n) and a loop that created k views
\* before vkCreateImageView failed: the other entries keep what they held.
ViewsAfterFailure(old, n, k) ==
    [i \in 1..n |-> IF i <= k THEN "live"
                    ELSE IF i <= Len(old) THEN old[i]
                    ELSE "null"]

\* What a native call finds when it is handed m_swapchain.
SwapchainHandleUse == IF m_swapchain = "destroyed" THEN "destroyed" ELSE "valid"

\* What destroy_swap_chain finds: the views and the swapchain it destroys.
DestroyHandleUse ==
    IF \/ m_swapchain = "destroyed"
       \/ \E i \in 1..Len(m_swapchain_imageviews) :
              m_swapchain_imageviews[i] = "destroyed"
    THEN "destroyed" ELSE "valid"

\* The image indices vkAcquireNextImageKHR can write.
AcquirableIndices == 0..(m_swapchain_image_count - 1)

\* The current image index names an image of the swapchain.
IndexUse ==
    IF m_swapchain_current_image_index < m_swapchain_image_count
    THEN "in_range" ELSE "out_of_range"

StoreImageCount(extent, queried) ==
    /\ swapChainCreateInfo' = [minImageCount |-> RequestedImageCount,
                               imageExtent |-> extent]
    /\ m_swapchain_image_count' =
           IF queried THEN RequestedImageCount + extraImages
           ELSE RequestedImageCount

\* ------------------------------------------------------ Device Context
\* Variant of CreationGuard: the assert is missing.
CreationGuard_Unchecked == TRUE

\* assert(NO_VULKAN_CONTEXTS) in VulkanContext::Create.
CreationGuard == NO_VULKAN_CONTEXTS

\* VulkanContext::Create under VULKAN_CONTEXT_CREATION_MUTEX. failAt = 0:
\* every initialization step succeeds; failAt = k: step k of CreateSteps
\* throws and the exception leaves Create before the guard is cleared.
\* create_swap_chain returns only once the framebuffer poll has ended.
VulkanContext_Create(failAt) ==
    /\ ~aborted
    /\ \E crash \in ImageCountCrashes :
       IF ~CreationGuard
       THEN /\ aborted' = TRUE
            /\ last' = [op |-> "Create", outcome |-> "assert",
                        existed |-> liveContexts]
            /\ UNCHANGED <<NO_VULKAN_CONTEXTS, liveContexts, m_swapchain,
                           stale, ownVars, swapChainCreateInfo,
                           m_swapchain_current_extent,
                           m_swapchain_image_count, depthPeak,
                           m_swapchain_imageviews>>
       ELSE IF failAt # 0
       THEN /\ last' = [op |-> "Create", outcome |-> "runtime_error",
                        existed |-> liveContexts,
                        failedStep |-> CreateSteps[failAt]]
            /\ SetOwn(CreatedOwn(failAt))
            /\ UNCHANGED <<aborted, NO_VULKAN_CONTEXTS, liveContexts,
                           m_swapchain, stale, swapChainCreateInfo,
                           m_swapchain_current_extent,
                           m_swapchain_image_count, depthPeak,
                           m_swapchain_imageviews>>
       ELSE IF crash
       THEN /\ surfaceSpecial => ~fbZero
            /\ aborted' = TRUE
            /\ last' = [op |-> "Create", outcome |-> "crash",
                        existed |-> liveContexts]
            /\ m_swapchain_current_extent' = ChosenExtent
            /\ UNCHANGED <<NO_VULKAN_CONTEXTS, liveContexts, m_swapchain,
                           stale, ownVars, swapChainCreateInfo,
                           m_swapchain_image_count, depthPeak,
                           m_swapchain_imageviews>>
       ELSE /\ surfaceSpecial => ~fbZero
            /\ NO_VULKAN_CONTEXTS' = FALSE
            /\ liveContexts' = liveContexts + 1
            /\ m_swapchain' = "live"
            /\ stale' = FALSE
            /\ last' = [op |-> "Create", outcome |-> "ok",
                        existed |-> liveContexts]
            /\ SetOwn(CreatedOwn(failAt))
            /\ m_swapchain_current_extent' = ChosenExtent
            /\ StoreImageCount(ChosenExtent, TRUE)
            /\ depthPeak' = 1
            /\ m_swapchain_imageviews' =
                   LiveViews(RequestedImageCount + extraImages)
            /\ UNCHANGED aborted
    /\ UNCHANGED <<surfaceCapabilities, windowSize, extraImages>>
    /\ UNCHANGED <<handleUse, m_swapchain_current_image_index, indexUse>>
    /\ UNCHANGED <<imgVars, poolVars, syncVars, layoutVars, descVars,
                   bufVars, fenceVars, devVars, famVars,
                   copyVars, raceVars>>
    /\ UNCHANGED <<RECREATING, pc, steps, oldWork, seenZero, surfaceSpecial,
                   fbZero, eventPending, gpuVars, cmdVars>>

\* ---------------------------------------------- swapchain acquire / present
\* Variant of SwapchainOutcome: only out-of-date is reported as
\* swapchain_error, suboptimal counts as success.
SwapchainOutcome_SuboptimalOk(result) ==
    IF result = "VK_ERROR_OUT_OF_DATE_KHR" THEN "swapchain_error"
    ELSE IF result \notin {"VK_SUCCESS", "VK_SUBOPTIMAL_KHR"}
    THEN "runtime_error"
    ELSE "ok"

\* The result handling shared by NextSwapChainImageIndex and
\* PresentSwapChain: out-of-date and suboptimal throw swapchain_error, every
\* other non-success code throws std::runtime_error.
SwapchainOutcome(result) ==
    IF result \in StaleCodes THEN "swapchain_error"
    ELSE IF result # "VK_SUCCESS" THEN "runtime_error"
    ELSE "ok"

\* Positions of RecreateSwapChain after destroy_swap_chain has run and before
\* create_swap_chain has created the new swapchain.
TornDown == {"create", "poll_get", "poll_wait", "build"}

\* The record of an acquire / present call kept in "last".
SwapchainCallRecord(op, t, result) ==
    [op |-> op, result |-> result,
     outcome |-> SwapchainOutcome(result),
     duringRecreate |-> \E u \in Threads \ {t} : pc[u] \in TornDown]

\* VulkanContext::NextSwapChainImageIndex; result is what
\* vkAcquireNextImageKHR reports.
NextSwapChainImageIndex(t, result) ==
    /\ Alive /\ Idle(t)
    /\ last' = SwapchainCallRecord("NextSwapChainImageIndex", t, result)
    /\ handleUse' = SwapchainHandleUse
    /\ IF result \in {"VK_SUCCESS", "VK_SUBOPTIMAL_KHR"}
          /\ AcquirableIndices # {}
       THEN \E i \in AcquirableIndices :
                m_swapchain_current_image_index' = i
       ELSE UNCHANGED m_swapchain_current_image_index
    /\ UNCHANGED <<m_swapchain_imageviews, indexUse>>
    /\ UNCHANGED notFrameVars
    /\ UNCHANGED <<ctxVars, swapVars, envVars, gpuVars, cmdVars>>

\* VulkanContext::PresentSwapChain; result is what vkQueuePresentKHR reports.
PresentSwapChain(t, result) ==
    /\ Alive /\ Idle(t)
    /\ last' = SwapchainCallRecord("PresentSwapChain", t, result)
    /\ handleUse' = SwapchainHandleUse
    /\ indexUse' = IndexUse
    /\ UNCHANGED <<m_swapchain_imageviews, m_swapchain_current_image_index>>
    /\ UNCHANGED notFrameVars
    /\ UNCHANGED <<ctxVars, swapVars, envVars, gpuVars, cmdVars>>

\* ------------------------------------------------------ RecreateSwapChain
Done(t, names) == [steps EXCEPT ![t] = @ \o names]

\* Another thread is between the entry and the return of RecreateSwapChain.
OtherRunning(t) == \E u \in Threads \ {t} : pc[u] # "idle"

\* The record of a RecreateSwapChain call kept in "last".
RecreateRecord(outcome, other, failedStep) ==
    [op |-> "RecreateSwapChain", outcome |-> outcome,
     otherRunning |-> other, failedStep |-> failedStep]

\* Line 47: the test of the static flag RECREATING.
Recreate_Check(t) ==
    /\ Alive /\ Idle(t)
    /\ IF RECREATING
       THEN /\ last' = RecreateRecord("concurrent_error", OtherRunning(t),
                                       "none")
            /\ UNCHANGED <<pc, steps, oldWork>>
       ELSE /\ pc' = [pc EXCEPT ![t] = "wait_idle"]
            /\ steps' = [steps EXCEPT ![t] = <<>>]
            /\ oldWork' = [oldWork EXCEPT ![t] = pending]
            /\ last' = RecreateRecord("entered", OtherRunning(t), "none")
    /\ UNCHANGED extVars
    /\ UNCHANGED <<ctxVars, RECREATING, seenZero, m_swapchain, envVars, gpuVars, cmdVars>>

\* Line 49: WaitDeviceIdle returns when every queue has drained.
Recreate_WaitDeviceIdle(t) ==
    /\ ~aborted /\ pc[t] = "wait_idle"
    /\ pending' = {}
    /\ steps' = Done(t, <<"wait_idle">>)
    /\ pc' = [pc EXCEPT ![t] = "set_flag"]
    /\ UNCHANGED extVars
    /\ UNCHANGED <<ctxVars, RECREATING, oldWork, seenZero, m_swapchain, envVars, nextSubmit, submitOf, cmdVars,
                   last>>

\* Line 50: RECREATING = true.
Recreate_SetFlag(t) ==
    /\ ~aborted /\ pc[t] = "set_flag"
    /\ RECREATING' = TRUE
    /\ pc' = [pc EXCEPT ![t] = "destroy"]
    /\ UNCHANGED extVars
    /\ UNCHANGED <<ctxVars, steps, oldWork, seenZero, m_swapchain, envVars, gpuVars, cmdVars, last>>

\* Line 51: destroy_swap_chain destroys the image views, then the swapchain;
\* m_swapchain keeps the destroyed handle.
destroy_swap_chain(t) ==
    /\ ~aborted /\ pc[t] = "destroy"
    /\ m_swapchain' = "destroyed"
    /\ m_swapchain_imageviews' =
           [i \in 1..Len(m_swapchain_imageviews) |->
               IF m_swapchain_imageviews[i] = "null" THEN "null"
               ELSE "destroyed"]
    /\ handleUse' = DestroyHandleUse
    /\ steps' = Done(t, <<"destroy_image_views", "destroy_swapchain">>)
    /\ pc' = [pc EXCEPT ![t] = "create"]
    /\ UNCHANGED <<m_swapchain_current_image_index, indexUse>>
    /\ UNCHANGED notFrameVars
    /\ UNCHANGED <<ctxVars, RECREATING, oldWork, seenZero, envVars, gpuVars,
                   cmdVars, last>>

\* create_swap_chain up to the first glfwGetFramebufferSize: the format
\* checks (they passed in Create and read unchanged state), the surface
\* capabilities, and the choice of the extent.
create_swap_chain_extent(t) ==
    /\ ~aborted /\ pc[t] = "create"
    /\ IF surfaceSpecial /\ fbZero
       THEN /\ seenZero' = [seenZero EXCEPT ![t] = TRUE]
            /\ steps' = Done(t, <<"query_surface_capabilities">>)
            /\ pc' = [pc EXCEPT ![t] = "poll_get"]
            /\ UNCHANGED m_swapchain_current_extent
       ELSE /\ seenZero' = [seenZero EXCEPT ![t] = FALSE]
            /\ steps' = Done(t, <<"query_surface_capabilities",
                                  "derive_extent">>)
            /\ pc' = [pc EXCEPT ![t] = "build"]
            /\ m_swapchain_current_extent' = ChosenExtent
    /\ UNCHANGED <<surfaceCapabilities, windowSize, extraImages,
                   swapChainCreateInfo, m_swapchain_image_count, depthPeak>>
    /\ UNCHANGED notSurfVars
    /\ UNCHANGED <<ctxVars, RECREATING, oldWork, m_swapchain, envVars, gpuVars, cmdVars, last>>

\* Loop body, first statement: glfwGetFramebufferSize.
poll_GetFramebufferSize(t) ==
    /\ ~aborted /\ pc[t] = "poll_get"
    /\ seenZero' = [seenZero EXCEPT ![t] = fbZero]
    /\ pc' = [pc EXCEPT ![t] = "poll_wait"]
    /\ UNCHANGED extVars
    /\ UNCHANGED <<ctxVars, RECREATING, steps, oldWork, m_swapchain, envVars, gpuVars, cmdVars, last>>

\* Loop body, second statement: glfwWaitEvents blocks until an event is in
\* the queue; then the loop condition is tested on the values read before.
poll_WaitEvents(t) ==
    /\ ~aborted /\ pc[t] = "poll_wait"
    /\ eventPending
    /\ eventPending' = FALSE
    /\ IF seenZero[t]
       THEN /\ pc' = [pc EXCEPT ![t] = "poll_get"]
            /\ UNCHANGED <<steps, m_swapchain_current_extent>>
       ELSE /\ pc' = [pc EXCEPT ![t] = "build"]
            /\ steps' = Done(t, <<"derive_extent">>)
            /\ m_swapchain_current_extent' = ChosenExtent
    /\ UNCHANGED <<surfaceCapabilities, windowSize, extraImages,
                   swapChainCreateInfo, m_swapchain_image_count, depthPeak>>
    /\ UNCHANGED notSurfVars
    /\ UNCHANGED <<ctxVars, RECREATING, oldWork, seenZero, m_swapchain, surfaceSpecial, fbZero, stale, gpuVars,
                   cmdVars, last>>

\* The native calls of create_swap_chain that can fail, in call order.
BuildSteps == <<"create_swapchain", "create_depth_image", "get_images",
                "create_image_views">>

\* The calls of BuildSteps whose failure is turned into a throw
\* (vkGetSwapchainImagesKHR is not checked).
ThrowingBuildSteps == {1, 2, 4}

\* The rest of create_swap_chain. failAt = 0: all native calls succeed;
\* failAt = k: call k of BuildSteps fails and create_swap_chain throws out
\* of RecreateSwapChain, which skips line 53.
create_swap_chain_build(t, failAt) ==
    /\ ~aborted /\ pc[t] = "build"
    /\ failAt \in {0} \cup ThrowingBuildSteps
    /\ \E crash \in ImageCountCrashes :
         IF crash
         THEN /\ aborted' = TRUE
              /\ UNCHANGED <<steps, pc, last, m_swapchain, stale, oldWork,
                             swapChainCreateInfo, m_swapchain_image_count,
                             depthPeak, m_swapchain_imageviews>>
         ELSE /\ IF failAt = 0
                 THEN /\ steps' = Done(t, BuildSteps)
                      /\ pc' = [pc EXCEPT ![t] = "clear_flag"]
                      /\ UNCHANGED last
                 ELSE /\ steps' = [steps EXCEPT ![t] = <<>>]
                      /\ pc' = [pc EXCEPT ![t] = "idle"]
                      /\ last' = RecreateRecord("runtime_error",
                                                OtherRunning(t),
                                                BuildSteps[failAt])
              /\ IF failAt = 1
                 THEN UNCHANGED <<m_swapchain, stale>>
                 ELSE /\ m_swapchain' = "live"
                      /\ stale' = FALSE
              /\ oldWork' = [oldWork EXCEPT
                                ![t] = IF failAt = 0 THEN @ ELSE {}]
              /\ StoreImageCount(m_swapchain_current_extent,
                                 failAt \notin {1, 2})
              /\ depthPeak' = IF failAt \in {1, 2} THEN depthPeak
                              ELSE DepthImagesAfterAllocate
              /\ \E k \in 0..(RequestedImageCount + extraImages - 1) :
                     m_swapchain_imageviews' =
                         IF failAt = 0
                         THEN LiveViews(RequestedImageCount + extraImages)
                         ELSE IF failAt = 4
                         THEN ViewsAfterFailure(
                                  m_swapchain_imageviews,
                                  RequestedImageCount + extraImages, k)
                         ELSE m_swapchain_imageviews
              /\ UNCHANGED aborted
    /\ UNCHANGED <<surfaceCapabilities, windowSize, extraImages,
                   m_swapchain_current_extent>>
    /\ UNCHANGED <<handleUse, m_swapchain_current_image_index, indexUse>>
    /\ UNCHANGED <<imgVars, poolVars, syncVars, ownVars, layoutVars,
                   descVars, bufVars, fenceVars, devVars, famVars,
                   copyVars, raceVars>>
    /\ UNCHANGED <<NO_VULKAN_CONTEXTS, liveContexts, RECREATING, seenZero,
                   surfaceSpecial, fbZero, eventPending, gpuVars, cmdVars>>

\* Line 53: RECREATING = false, and the call returns.
Recreate_ClearFlag(t) ==
    /\ ~aborted /\ pc[t] = "clear_flag"
    /\ RECREATING' = FALSE
    /\ pc' = [pc EXCEPT ![t] = "idle"]
    /\ last' = RecreateRecord("ok", OtherRunning(t), "none")
    /\ UNCHANGED extVars
    /\ UNCHANGED <<ctxVars, steps, oldWork, seenZero, m_swapchain, envVars, gpuVars, cmdVars>>

\* vkGetSwapchainImagesKHR: the driver settles how many images more than
\* the requested minimum the next swapchain gets.
vkGetSwapchainImagesKHR(n) ==
    /\ ~aborted /\ n \in 0..MaxExtraImages /\ n # extraImages
    /\ extraImages' = n
    /\ UNCHANGED <<surfaceCapabilities, windowSize, swapChainCreateInfo,
                   m_swapchain_current_extent, m_swapchain_image_count,
                   depthPeak>>
    /\ UNCHANGED <<coreVars, last, notSurfVars>>

\* ------------------------------------------------------------ the window
\* The window is minimized: zero-area framebuffer, an event is queued.
Minimize ==
    /\ ~aborted /\ ~fbZero
    /\ fbZero' = TRUE /\ eventPending' = TRUE /\ stale' = TRUE
    /\ UNCHANGED extVars
    /\ UNCHANGED <<ctxVars, swapVars, surfaceSpecial, gpuVars, cmdVars, last>>

\* The window is restored: non-zero framebuffer, an event is queued.
Restore ==
    /\ ~aborted /\ fbZero
    /\ fbZero' = FALSE /\ eventPending' = TRUE /\ stale' = TRUE
    /\ UNCHANGED extVars
    /\ UNCHANGED <<ctxVars, swapVars, surfaceSpecial, gpuVars, cmdVars, last>>

\* Any other window event (input, focus, refresh) is queued.
OtherEvent ==
    /\ ~aborted /\ ~eventPending
    /\ eventPending' = TRUE
    /\ UNCHANGED extVars
    /\ UNCHANGED <<ctxVars, swapVars, surfaceSpecial, fbZero, stale, gpuVars,
                   cmdVars, last>>

\* ------------------------------------------------------------- the image
MaxCommands == 4

\* The image layouts the callers of this library pass as targets.
Layouts ==
    {"VK_IMAGE_LAYOUT_UNDEFINED", "VK_IMAGE_LAYOUT_TRANSFER_DST_OPTIMAL",
     "VK_IMAGE_LAYOUT_SHADER_READ_ONLY_OPTIMAL",
     "VK_IMAGE_LAYOUT_DEPTH_STENCIL_ATTACHMENT_OPTIMAL",
     "VK_IMAGE_LAYOUT_TRANSFER_SRC_OPTIMAL"}

\* Variant of deduce_transition_layout_barrier: the branches test only the
\* target layout, not the current one.
deduce_transition_layout_barrier_TargetOnly(from, target) ==
    IF target = "VK_IMAGE_LAYOUT_TRANSFER_DST_OPTIMAL"
    THEN [ok |-> TRUE, cmd |-> "barrier", oldLayout |-> from,
          newLayout |-> target,
          srcAccessMask |-> {},
          dstAccessMask |-> {"VK_ACCESS_TRANSFER_WRITE_BIT"},
          stage_src |-> "VK_PIPELINE_STAGE_TOP_OF_PIPE_BIT",
          stage_dst |-> "VK_PIPELINE_STAGE_TRANSFER_BIT"]
    ELSE IF target = "VK_IMAGE_LAYOUT_DEPTH_STENCIL_ATTACHMENT_OPTIMAL"
    THEN [ok |-> TRUE, cmd |-> "barrier", oldLayout |-> from,
          newLayout |-> target,
          srcAccessMask |-> {},
          dstAccessMask |->
              {"VK_ACCESS_DEPTH_STENCIL_ATTACHMENT_READ_BIT",
               "VK_ACCESS_DEPTH_STENCIL_ATTACHMENT_WRITE_BIT"},
          stage_src |-> "VK_PIPELINE_STAGE_TOP_OF_PIPE_BIT",
          stage_dst |-> "VK_PIPELINE_STAGE_EARLY_FRAGMENT_TESTS_BIT"]
    ELSE IF target = "VK_IMAGE_LAYOUT_SHADER_READ_ONLY_OPTIMAL"
    THEN [ok |-> TRUE, cmd |-> "barrier", oldLayout |-> from,
          newLayout |-> target,
          srcAccessMask |-> {"VK_ACCESS_TRANSFER_WRITE_BIT"},
          dstAccessMask |-> {"VK_ACCESS_SHADER_READ_BIT"},
          stage_src |-> "VK_PIPELINE_STAGE_TRANSFER_BIT",
          stage_dst |-> "VK_PIPELINE_STAGE_FRAGMENT_SHADER_BIT"]
    ELSE [ok |-> FALSE]

\* VMA::Image::deduce_transition_layout_barrier for current layout "from":
\* the barrier of the three supported transitions; ok = FALSE stands for the
\* std::invalid_argument of the final else.
deduce_transition_layout_barrier(from, target) ==
    IF /\ from = "VK_IMAGE_LAYOUT_UNDEFINED"
       /\ target = "VK_IMAGE_LAYOUT_TRANSFER_DST_OPTIMAL"
    THEN [ok |-> TRUE, cmd |-> "barrier", oldLayout |-> from,
          newLayout |-> target,
          srcAccessMask |-> {},
          dstAccessMask |-> {"VK_ACCESS_TRANSFER_WRITE_BIT"},
          stage_src |-> "VK_PIPELINE_STAGE_TOP_OF_PIPE_BIT",
          stage_dst |-> "VK_PIPELINE_STAGE_TRANSFER_BIT"]
    ELSE IF /\ from = "VK_IMAGE_LAYOUT_UNDEFINED"
            /\ target = "VK_IMAGE_LAYOUT_DEPTH_STENCIL_ATTACHMENT_OPTIMAL"
    THEN [ok |-> TRUE, cmd |-> "barrier", oldLayout |-> from,
          newLayout |-> target,
          srcAccessMask |-> {},
          dstAccessMask |->
              {"VK_ACCESS_DEPTH_STENCIL_ATTACHMENT_READ_BIT",
               "VK_ACCESS_DEPTH_STENCIL_ATTACHMENT_WRITE_BIT"},
          stage_src |-> "VK_PIPELINE_STAGE_TOP_OF_PIPE_BIT",
          stage_dst |-> "VK_PIPELINE_STAGE_EARLY_FRAGMENT_TESTS_BIT"]
    ELSE IF /\ from = "VK_IMAGE_LAYOUT_TRANSFER_DST_OPTIMAL"
            /\ target = "VK_IMAGE_LAYOUT_SHADER_READ_ONLY_OPTIMAL"
    THEN [ok |-> TRUE, cmd |-> "barrier", oldLayout |-> from,
          newLayout |-> target,
          srcAccessMask |-> {"VK_ACCESS_TRANSFER_WRITE_BIT"},
          dstAccessMask |-> {"VK_ACCESS_SHADER_READ_BIT"},
          stage_src |-> "VK_PIPELINE_STAGE_TRANSFER_BIT",
          stage_dst |-> "VK_PIPELINE_STAGE_FRAGMENT_SHADER_BIT"]
    ELSE [ok |-> FALSE]

\* vkCmdCopyBufferToImage with the layout the image is recorded in.
CopyCommandRecord(layout) ==
    [ok |-> TRUE, cmd |-> "copy", oldLayout |-> layout, newLayout |-> layout,
     srcAccessMask |-> {}, dstAccessMask |-> {},
     stage_src |-> "none", stage_dst |-> "none"]

\* The record of an image call kept in "last".
ImageCallRecord(op, target, outcome) ==
    [op |-> op, outcome |-> outcome, from |-> m_image_layout,
     target |-> target, before |-> Len(recorded)]

\* The steps of the blocking variants (TransitionLayout, Write): obtain a
\* one-time command buffer, Begin, the ...Command function, End,
\* Submit(true). Steps 1, 2, 4 and 5 fail when their native call fails.
BlockingSteps ==
    <<"GetOneTimeCommandBuffer", "Begin", "Command", "End", "Submit">>

NativeFailures == {0, 1, 2, 4, 5}

\* The helper behind the blocking variants: a fresh one-time command buffer
\* in the Idle state; failAt = 1 means none could be obtained.
GetOneTimeCommandBuffer(failAt) == failAt # 1

\* Variant of CommandPrecondition: the assert is missing.
CommandPrecondition_Unchecked(cb) == TRUE

\* assert(commandBuffer->IsRecording()) at the head of every ...Command
\* function.
CommandPrecondition(cb) == IsRecording(cb)

\* The record of a ...Command call kept in "last": the image call record and
\* the state of the command buffer it was given.
CommandCallRecord(op, cb, target, outcome) ==
    [op |-> op, outcome |-> outcome, from |-> m_image_layout,
     target |-> target, before |-> Len(recorded),
     cb |-> cb, wasRecording |-> IsRecording(cb),
     submitBefore |-> submitOf[cb], pendingBefore |-> pending]

\* VkDeviceSize is an unsigned 64-bit integer; the model keeps the wrap-around
\* of its subtraction at a width of DeviceSizeBits bits.
DeviceSizeBits == 3
DeviceSizeModulus == 2 ^ DeviceSizeBits

\* Largest buffer size and largest offset a caller passes.
MaxBufferSize == 2
MaxCopyOffset == 3

\* a - b in VkDeviceSize arithmetic.
DeviceSizeMinus(a, b) == (a - b) % DeviceSizeModulus

\* The arguments of a CopyCommand call and the sizes of the two buffers.
CopyRequests ==
    [size : 0..MaxBufferSize, offset_src : 0..MaxCopyOffset,
     offset_dst : 0..MaxCopyOffset, srcSize : 1..MaxBufferSize,
     dstSize : 1..MaxBufferSize]

\* Before any copy: no region.
NoBufferCopy ==
    [srcOffset |-> 0, dstOffset |-> 0, size |-> 0, srcSize |-> 0,
     dstSize |-> 0]

\* size = size ? size : Size()
CopySize(req) == IF req.size # 0 THEN req.size ELSE req.srcSize

\* Variant of CopySizeAssert: both ends of the region are compared with the
\* buffer sizes, without subtracting.
CopySizeAssert_BothEnds(req) ==
    /\ req.offset_src + CopySize(req) <= req.srcSize
    /\ req.offset_dst + CopySize(req) <= req.dstSize

\* assert(size <= (destination->Size() - offset_dst))
CopySizeAssert(req) ==
    CopySize(req) <= DeviceSizeMinus(req.dstSize, req.offset_dst)

\* VMA::Buffer::CopyCommand with the arguments and buffer sizes of req.
Buffer_CopyCommand(t, cb, req) ==
    /\ Alive /\ Idle(t) /\ cb \in CommandBuffers /\ req \in CopyRequests
    /\ Len(recorded) < MaxCommands
    /\ IF ~CommandPrecondition(cb) \/ ~CopySizeAssert(req)
       THEN /\ aborted' = TRUE
            /\ last' = CommandCallRecord("CopyCommand", cb, m_image_layout,
                                         "assert")
            /\ UNCHANGED <<imgVars, bufferCopy>>
       ELSE /\ recorded' = Append(recorded, [cmd |-> "vkCmdCopyBuffer"])
            /\ bufferCopy' = [srcOffset |-> req.offset_src,
                              dstOffset |-> req.offset_dst,
                              size |-> CopySize(req),
                              srcSize |-> req.srcSize,
                              dstSize |-> req.dstSize]
            /\ last' = CommandCallRecord("CopyCommand", cb, m_image_layout,
                                         "ok")
            /\ UNCHANGED <<aborted, m_image_layout>>
    /\ UNCHANGED <<poolVars, syncVars, ownVars, layoutVars, descVars,
                   bufVars, fenceVars, surfVars, devVars, famVars,
                   frameVars, raceVars>>
    /\ UNCHANGED <<NO_VULKAN_CONTEXTS, liveContexts, swapVars, envVars,
                   gpuVars, cmdVars>>

\* VMA::Image::TransitionLayoutCommand on the caller's command buffer cb.
Image_TransitionLayoutCommand(t, cb, target) ==
    /\ Alive /\ Idle(t) /\ cb \in CommandBuffers /\ target \in Layouts
    /\ Len(recorded) < MaxCommands
    /\ LET barrier == deduce_transition_layout_barrier(m_image_layout, target)
       IN  IF ~CommandPrecondition(cb)
           THEN /\ aborted' = TRUE
                /\ last' = CommandCallRecord("TransitionLayoutCommand", cb, target,
                                           "assert")
                /\ UNCHANGED imgVars
           ELSE IF ~barrier.ok
           THEN /\ last' = CommandCallRecord("TransitionLayoutCommand", cb, target,
                                           "invalid_argument")
                /\ UNCHANGED <<aborted, imgVars>>
           ELSE /\ recorded' = Append(recorded, barrier)
                /\ m_image_layout' = target
                /\ last' = CommandCallRecord("TransitionLayoutCommand", cb, target,
                                           "ok")
                /\ UNCHANGED aborted
    /\ UNCHANGED notImgVars
    /\ UNCHANGED <<NO_VULKAN_CONTEXTS, liveContexts, swapVars, envVars,
                   gpuVars, cmdVars>>

\* VMA::Image::TransitionLayout: the command on a one-time command buffer of
\* its own, submitted with wait_queue_idle = true. The layout is assigned by
\* TransitionLayoutCommand (line 292) and again after Submit (line 273).
Image_TransitionLayout(t, target, failAt) ==
    /\ Alive /\ Idle(t) /\ target \in Layouts /\ failAt \in NativeFailures
    /\ Len(recorded) < MaxCommands
    /\ LET barrier == deduce_transition_layout_barrier(m_image_layout, target)
       IN  IF ~GetOneTimeCommandBuffer(failAt) \/ failAt = 2
           THEN /\ last' = ImageCallRecord("TransitionLayout", target,
                                           "runtime_error")
                /\ UNCHANGED <<imgVars, pending>>
           ELSE IF ~barrier.ok
           THEN /\ last' = ImageCallRecord("TransitionLayout", target,
                                           "invalid_argument")
                /\ UNCHANGED <<imgVars, pending>>
           ELSE /\ recorded' = Append(recorded, barrier)
                /\ m_image_layout' = target
                /\ last' = ImageCallRecord("TransitionLayout", target,
                               IF failAt = 0 THEN "ok" ELSE "runtime_error")
                /\ pending' = IF failAt = 0 THEN {} ELSE pending
    /\ UNCHANGED notImgVars
    /\ UNCHANGED <<ctxVars, swapVars, envVars, nextSubmit, submitOf, cmdVars>>

\* Variant of WriteCommands: the copy is recorded before the first
\* transition.
WriteCommands_CopyFirst(from) ==
    LET toDst == deduce_transition_layout_barrier(
                     from, "VK_IMAGE_LAYOUT_TRANSFER_DST_OPTIMAL")
        toRead == deduce_transition_layout_barrier(
                     "VK_IMAGE_LAYOUT_TRANSFER_DST_OPTIMAL",
                     "VK_IMAGE_LAYOUT_SHADER_READ_ONLY_OPTIMAL")
    IN  IF ~toDst.ok THEN <<>>
        ELSE <<CopyCommandRecord(from), toDst, toRead>>

\* What WriteCommand records for an image in layout "from" (lines 255-257):
\* the transition to TransferDst, the copy with the layout then recorded, the
\* transition to ShaderReadOnly; nothing when the first transition throws.
WriteCommands(from) ==
    LET toDst == deduce_transition_layout_barrier(
                     from, "VK_IMAGE_LAYOUT_TRANSFER_DST_OPTIMAL")
        toRead == deduce_transition_layout_barrier(
                     "VK_IMAGE_LAYOUT_TRANSFER_DST_OPTIMAL",
                     "VK_IMAGE_LAYOUT_SHADER_READ_ONLY_OPTIMAL")
    IN  IF ~toDst.ok THEN <<>>
        ELSE <<toDst, CopyCommandRecord(toDst.newLayout), toRead>>

\* VMA::Image::WriteCommand on the caller's command buffer cb. sizeOk: the
\* staging buffer is not larger than the image (second assert).
Image_WriteCommand(t, cb, sizeOk) ==
    /\ Alive /\ Idle(t) /\ cb \in CommandBuffers
    /\ Len(recorded) + Len(WriteCommands(m_image_layout)) <= MaxCommands
    /\ IF ~CommandPrecondition(cb) \/ ~sizeOk
       THEN /\ aborted' = TRUE
            /\ last' = CommandCallRecord("WriteCommand", cb,
                           "VK_IMAGE_LAYOUT_SHADER_READ_ONLY_OPTIMAL", "assert")
            /\ UNCHANGED imgVars
       ELSE IF WriteCommands(m_image_layout) = <<>>
       THEN /\ last' = CommandCallRecord("WriteCommand", cb,
                           "VK_IMAGE_LAYOUT_SHADER_READ_ONLY_OPTIMAL",
                           "invalid_argument")
            /\ UNCHANGED <<aborted, imgVars>>
       ELSE /\ recorded' = recorded \o WriteCommands(m_image_layout)
            /\ m_image_layout' = "VK_IMAGE_LAYOUT_SHADER_READ_ONLY_OPTIMAL"
            /\ last' = CommandCallRecord("WriteCommand", cb,
                           "VK_IMAGE_LAYOUT_SHADER_READ_ONLY_OPTIMAL", "ok")
            /\ UNCHANGED aborted
    /\ UNCHANGED notImgVars
    /\ UNCHANGED <<NO_VULKAN_CONTEXTS, liveContexts, swapVars, envVars,
                   gpuVars, cmdVars>>

\* VMA::Image::Write: WriteCommand on a one-time command buffer of its own,
\* submitted with wait_queue_idle = true.
Image_Write(t, sizeOk, failAt) ==
    /\ Alive /\ Idle(t) /\ failAt \in NativeFailures
    /\ Len(recorded) + Len(WriteCommands(m_image_layout)) <= MaxCommands
    /\ IF ~GetOneTimeCommandBuffer(failAt) \/ failAt = 2
       THEN /\ last' = ImageCallRecord("Write",
                           "VK_IMAGE_LAYOUT_SHADER_READ_ONLY_OPTIMAL",
                           "runtime_error")
            /\ UNCHANGED <<aborted, imgVars, pending>>
       ELSE IF ~sizeOk
       THEN /\ aborted' = TRUE
            /\ last' = ImageCallRecord("Write",
                           "VK_IMAGE_LAYOUT_SHADER_READ_ONLY_OPTIMAL", "assert")
            /\ UNCHANGED <<imgVars, pending>>
       ELSE IF WriteCommands(m_image_layout) = <<>>
       THEN /\ last' = ImageCallRecord("Write",
                           "VK_IMAGE_LAYOUT_SHADER_READ_ONLY_OPTIMAL",
                           "invalid_argument")
            /\ UNCHANGED <<aborted, imgVars, pending>>
       ELSE /\ recorded' = recorded \o WriteCommands(m_image_layout)
            /\ m_image_layout' = "VK_IMAGE_LAYOUT_SHADER_READ_ONLY_OPTIMAL"
            /\ last' = ImageCallRecord("Write",
                           "VK_IMAGE_LAYOUT_SHADER_READ_ONLY_OPTIMAL",
                           IF failAt = 0 THEN "ok" ELSE "runtime_error")
            /\ pending' = IF failAt = 0 THEN {} ELSE pending
            /\ UNCHANGED aborted
    /\ UNCHANGED notImgVars
    /\ UNCHANGED <<NO_VULKAN_CONTEXTS, liveContexts, swapVars, envVars,
                   nextSubmit, submitOf, cmdVars>>

\* The barrier Screenshot puts on the current swapchain image.
SwapchainImageBarrier(from, target) ==
    [ok |-> TRUE, cmd |-> "swapchain_barrier", oldLayout |-> from,
     newLayout |-> target,
     srcAccessMask |-> {}, dstAccessMask |-> {},
     stage_src |-> "VK_PIPELINE_STAGE_TRANSFER_BIT",
     stage_dst |-> "VK_PIPELINE_STAGE_TRANSFER_BIT"]

\* vkCmdBlitImage into the screenshot image in the layout it is recorded in.
BlitCommandRecord(layout) ==
    [ok |-> TRUE, cmd |-> "blit", oldLayout |-> layout, newLayout |-> layout,
     srcAccessMask |-> {}, dstAccessMask |-> {},
     stage_src |-> "none", stage_dst |-> "none"]

\* What Screenshot records for a target image in layout "from" (lines
\* 137-167), up to the TransitionLayoutCommand that throws, the layout the
\* image is recorded in afterwards, and whether End and Submit are reached.
ScreenshotCommands(from) ==
    LET before == SwapchainImageBarrier("VK_IMAGE_LAYOUT_UNDEFINED",
                      "VK_IMAGE_LAYOUT_TRANSFER_SRC_OPTIMAL")
        toDst == deduce_transition_layout_barrier(
                     from, "VK_IMAGE_LAYOUT_TRANSFER_DST_OPTIMAL")
        back == deduce_transition_layout_barrier(
                    "VK_IMAGE_LAYOUT_TRANSFER_DST_OPTIMAL", from)
        after == SwapchainImageBarrier("VK_IMAGE_LAYOUT_TRANSFER_SRC_OPTIMAL",
                     "VK_IMAGE_LAYOUT_PRESENT_SRC_KHR")
    IN  IF ~toDst.ok
        THEN [cmds |-> <<before>>, layout |-> from, completed |-> FALSE]
        ELSE IF ~back.ok
        THEN [cmds |-> <<before, toDst,
                         BlitCommandRecord(toDst.newLayout)>>,
              layout |-> toDst.newLayout, completed |-> FALSE]
        ELSE [cmds |-> <<before, toDst, BlitCommandRecord(toDst.newLayout),
                         back, after>>,
              layout |-> back.newLayout, completed |-> TRUE]

\* VulkanContext::Screenshot into the image: the swapchain image is taken at
\* the current image index, the commands go to a one-time command buffer of
\* its own, submitted with wait_queue_idle = true.
Screenshot(t, failAt) ==
    /\ Alive /\ Idle(t) /\ failAt \in NativeFailures
    /\ Len(recorded) + Len(ScreenshotCommands(m_image_layout).cmds)
           <= MaxCommands
    /\ indexUse' = IndexUse
    /\ LET shot == ScreenshotCommands(m_image_layout)
       IN  IF ~GetOneTimeCommandBuffer(failAt) \/ failAt = 2
           THEN /\ last' = ImageCallRecord("Screenshot", m_image_layout,
                                           "runtime_error")
                /\ UNCHANGED <<imgVars, pending>>
           ELSE /\ recorded' = recorded \o shot.cmds
                /\ m_image_layout' = shot.layout
                /\ last' = ImageCallRecord("Screenshot", m_image_layout,
                               IF ~shot.completed THEN "invalid_argument"
                               ELSE IF failAt = 0 THEN "ok"
                               ELSE "runtime_error")
                /\ pending' = IF shot.completed /\ failAt = 0 THEN {}
                              ELSE pending
    /\ UNCHANGED <<m_swapchain_imageviews, handleUse,
                   m_swapchain_current_image_index>>
    /\ UNCHANGED <<poolVars, syncVars, ownVars, layoutVars, descVars,
                   bufVars, fenceVars, surfVars, devVars, famVars,
                   copyVars, raceVars>>
    /\ UNCHANGED <<ctxVars, swapVars, envVars, nextSubmit, submitOf, cmdVars>>

\* RenderPass::Begin on the caller's command buffer cb: the framebuffer is
\* taken at the current image index.
RenderPass_Begin(t, cb) ==
    /\ Alive /\ Idle(t) /\ cb \in CommandBuffers
    /\ Len(recorded) < MaxCommands
    /\ IF ~CommandPrecondition(cb)
       THEN /\ aborted' = TRUE
            /\ last' = CommandCallRecord("RenderPassBegin", cb,
                                         m_image_layout, "assert")
            /\ UNCHANGED <<imgVars, indexUse>>
       ELSE /\ indexUse' = IndexUse
            /\ recorded' = Append(recorded, [cmd |-> "vkCmdBeginRenderPass"])
            /\ last' = CommandCallRecord("RenderPassBegin", cb,
                                         m_image_layout, "ok")
            /\ UNCHANGED <<aborted, m_image_layout>>
    /\ UNCHANGED <<m_swapchain_imageviews, handleUse,
                   m_swapchain_current_image_index>>
    /\ UNCHANGED <<poolVars, syncVars, ownVars, layoutVars, descVars,
                   bufVars, fenceVars, surfVars, devVars, famVars,
                   copyVars, raceVars>>
    /\ UNCHANGED <<NO_VULKAN_CONTEXTS, liveContexts, swapVars, envVars,
                   gpuVars, cmdVars>>

\* ------------------------------------------------------- command pools
MaxPools == 2

\* QueueFamilyIndex values: two queue families, and the empty optional.
QueueFamilies == {"q0", "q1"}

QueueFamilyIndexes == QueueFamilies \cup {"nullopt"}

\* The std::thread::id values passed as thread_id.
ThreadIds == {"main", "worker"}

PoolFlagBits ==
    {"VK_COMMAND_POOL_CREATE_TRANSIENT_BIT",
     "VK_COMMAND_POOL_CREATE_RESET_COMMAND_BUFFER_BIT"}

\* Variant of CommandBufferVariant: the transient flag is tested first.
CommandBufferVariant_TransientFirst(flags) ==
    IF "VK_COMMAND_POOL_CREATE_TRANSIENT_BIT" \in flags
    THEN "CommandBufferOneTime"
    ELSE IF "VK_COMMAND_POOL_CREATE_RESET_COMMAND_BUFFER_BIT" \in flags
    THEN "CommandBufferReset"
    ELSE "none"

\* The if / else-if of CommandPool::AllocateCommandBuffer; "none" stands for
\* the throw of the final else.
CommandBufferVariant(flags) ==
    IF "VK_COMMAND_POOL_CREATE_RESET_COMMAND_BUFFER_BIT" \in flags
    THEN "CommandBufferReset"
    ELSE IF "VK_COMMAND_POOL_CREATE_TRANSIENT_BIT" \in flags
    THEN "CommandBufferOneTime"
    ELSE "none"

\* The record of an allocation from a pool with the given flags, kept in
\* "last"; global names the cache the pool came from ("local": none).
AllocateRecord(op, pool, flags, global, allocOk) ==
    [op |-> op, pool |-> pool, flags |-> flags, global |-> global,
     nativeOk |-> allocOk,
     variant |-> IF allocOk THEN CommandBufferVariant(flags) ELSE "none",
     outcome |-> IF CommandBufferVariant(flags) # "none" /\ allocOk
                 THEN "ok" ELSE "runtime_error"]

\* CommandPool::AllocateCommandBuffer on an existing pool. allocOk:
\* vkAllocateCommandBuffers succeeds.
CommandPool_AllocateCommandBuffer(t, pool, allocOk) ==
    /\ Alive /\ Idle(t) /\ pool \in DOMAIN poolFlags
    /\ last' = AllocateRecord("AllocateCommandBuffer", pool, poolFlags[pool],
                              "local", allocOk)
    /\ UNCHANGED <<coreVars, extVars>>

\* VulkanContext::CreateCommandPool. createOk: vkCreateCommandPool succeeds.
CreateCommandPool(t, family, flags, createOk) ==
    /\ Alive /\ Idle(t)
    /\ family \in QueueFamilyIndexes /\ flags \subseteq PoolFlagBits
    /\ IF family = "nullopt" \/ ~createOk
       THEN /\ last' = [op |-> "CreateCommandPool",
                        outcome |-> "runtime_error", pool |-> 0]
            /\ UNCHANGED poolFlags
       ELSE /\ Len(poolFlags) < MaxPools
            /\ poolFlags' = Append(poolFlags, flags)
            /\ last' = [op |-> "CreateCommandPool", outcome |-> "ok",
                        pool |-> Len(poolFlags) + 1]
    /\ UNCHANGED <<coreVars, notPoolVars, m_global_onetime_command_pools,
                   m_global_resetable_command_pools>>

\* The pool cached for key, 0 for an absent or a null entry.
Cached(cache, key) == IF key \in DOMAIN cache THEN cache[key] ELSE 0

\* Variant of NeedsPool: the cached entry is not consulted.
NeedsPool_Always(cache, key) == TRUE

\* The test commandPool == nullptr on the entry operator[] returns.
NeedsPool(cache, key) == Cached(cache, key) = 0

\* cache with key set to pool.
WithEntry(cache, key, pool) ==
    [k \in DOMAIN cache \cup {key} |-> IF k = key THEN pool ELSE cache[k]]

\* The record of a global-pool request kept in "last".
PoolRequestRecord(op, cache, key, pool, outcome) ==
    [op |-> op, key |-> key, hadPool |-> Cached(cache, key), pool |-> pool,
     outcome |-> outcome, count |-> Len(poolFlags)]

\* The body shared by GetGlobalOneTimeCommandPool and
\* GetGlobalResetableCommandPool on their cache: operator[] inserts a null
\* entry for a new key; a null entry is filled by CreateCommandPool(flags),
\* and stays null when that throws (empty queue family index, or
\* vkCreateCommandPool failing).
GlobalPool(cache, flags, family, tid, createOk) ==
    LET key == <<tid, family>>
    IN  IF NeedsPool(cache, key)
        THEN IF family = "nullopt" \/ ~createOk
             THEN /\ cache' = WithEntry(cache, key, 0)
                  /\ UNCHANGED poolFlags
             ELSE /\ Len(poolFlags) < MaxPools
                  /\ poolFlags' = Append(poolFlags, flags)
                  /\ cache' = WithEntry(cache, key, Len(poolFlags) + 1)
        ELSE UNCHANGED <<cache, poolFlags>>

\* What the request returns: the pool, or 0 when it throws.
GlobalPoolResult(cache, family, tid, createOk) ==
    LET key == <<tid, family>>
    IN  IF ~NeedsPool(cache, key) THEN cache[key]
        ELSE IF family = "nullopt" \/ ~createOk THEN 0
        ELSE Len(poolFlags) + 1

\* VulkanContext::GetGlobalOneTimeCommandPool for thread id tid, called by t.
GetGlobalOneTimeCommandPool(t, family, tid, createOk) ==
    /\ Alive /\ Idle(t) /\ family \in QueueFamilyIndexes /\ tid \in ThreadIds
    /\ GlobalPool(m_global_onetime_command_pools,
                  {"VK_COMMAND_POOL_CREATE_TRANSIENT_BIT"},
                  family, tid, createOk)
    /\ LET pool == GlobalPoolResult(m_global_onetime_command_pools,
                                    family, tid, createOk)
       IN  last' = PoolRequestRecord("GetGlobalOneTimeCommandPool",
                       m_global_onetime_command_pools, <<tid, family>>, pool,
                       IF pool = 0 THEN "runtime_error" ELSE "ok")
    /\ UNCHANGED <<coreVars, notPoolVars, m_global_resetable_command_pools>>

\* VulkanContext::GetGlobalResetableCommandPool.
GetGlobalResetableCommandPool(t, family, tid, createOk) ==
    /\ Alive /\ Idle(t) /\ family \in QueueFamilyIndexes /\ tid \in ThreadIds
    /\ GlobalPool(m_global_resetable_command_pools,
                  {"VK_COMMAND_POOL_CREATE_RESET_COMMAND_BUFFER_BIT"},
                  family, tid, createOk)
    /\ LET pool == GlobalPoolResult(m_global_resetable_command_pools,
                                    family, tid, createOk)
       IN  last' = PoolRequestRecord("GetGlobalResetableCommandPool",
                       m_global_resetable_command_pools, <<tid, family>>,
                       pool, IF pool = 0 THEN "runtime_error" ELSE "ok")
    /\ UNCHANGED <<coreVars, notPoolVars, m_global_onetime_command_pools>>

\* VulkanContext::CreateOneTimeCommandBuffer: the global one-time pool of
\* (tid, family), then AllocateCommandBuffer on it.
CreateOneTimeCommandBuffer(t, family, tid, createOk, allocOk) ==
    /\ Alive /\ Idle(t) /\ family \in QueueFamilyIndexes /\ tid \in ThreadIds
    /\ GlobalPool(m_global_onetime_command_pools,
                  {"VK_COMMAND_POOL_CREATE_TRANSIENT_BIT"},
                  family, tid, createOk)
    /\ LET pool == GlobalPoolResult(m_global_onetime_command_pools,
                                    family, tid, createOk)
       IN  last' = AllocateRecord("CreateOneTimeCommandBuffer", pool,
                       IF pool = 0 THEN {} ELSE poolFlags'[pool],
                       "onetime", allocOk)
    /\ UNCHANGED <<coreVars, notPoolVars, m_global_resetable_command_pools>>

\* VulkanContext::CreateResetableCommandBuffer.
CreateResetableCommandBuffer(t, family, tid, createOk, allocOk) ==
    /\ Alive /\ Idle(t) /\ family \in QueueFamilyIndexes /\ tid \in ThreadIds
    /\ GlobalPool(m_global_resetable_command_pools,
                  {"VK_COMMAND_POOL_CREATE_RESET_COMMAND_BUFFER_BIT"},
                  family, tid, createOk)
    /\ LET pool == GlobalPoolResult(m_global_resetable_command_pools,
                                    family, tid, createOk)
       IN  last' = AllocateRecord("CreateResetableCommandBuffer", pool,
                       IF pool = 0 THEN {} ELSE poolFlags'[pool],
                       "resetable", allocOk)
    /\ UNCHANGED <<coreVars, notPoolVars, m_global_onetime_command_pools>>

\* ------------------------------------ the getters, one memory access at a time
\* std::this_thread::get_id(), the default thread_id of the three getters.
ThreadIdOf(t) == IF t = 1 THEN "main" ELSE "worker"

\* The three unordered_maps keyed by thread id.
Registries == {"onetime", "resetable", "descriptor"}

\* Largest number of DescriptorPool objects created.
MaxDescriptorPools == 2

Registry(which) ==
    CASE which = "onetime" -> m_global_onetime_command_pools
      [] which = "resetable" -> m_global_resetable_command_pools
      [] which = "descriptor" -> m_global_descriptor_pool

\* The flags the getter of a command-pool registry passes to
\* CreateCommandPool.
RegistryFlags(which) ==
    IF which = "onetime" THEN {"VK_COMMAND_POOL_CREATE_TRANSIENT_BIT"}
    ELSE {"VK_COMMAND_POOL_CREATE_RESET_COMMAND_BUFFER_BIT"}

\* [thread_id][queue_family_index] for the command pools, [thread_id] for the
\* descriptor pools.
RegistryKey(which, tid, family) ==
    IF which = "descriptor" THEN <<tid>> ELSE <<tid, family>>

\* The thread ids that have a node in the map keyed by thread id.
OuterKeys(cache) == {k[1] : k \in DOMAIN cache}

\* A thread outside the getters.
NoGetter ==
    [pc |-> "idle", which |-> "none", key |-> <<>>, seen |-> {}, slot |-> 0]

\* The registry "which" becomes new, the other two stay.
SetRegistry(which, new) ==
    /\ m_global_onetime_command_pools' =
           IF which = "onetime" THEN new ELSE m_global_onetime_command_pools
    /\ m_global_resetable_command_pools' =
           IF which = "resetable" THEN new
           ELSE m_global_resetable_command_pools
    /\ m_global_descriptor_pool' =
           IF which = "descriptor" THEN new ELSE m_global_descriptor_pool

\* operator[] on the map keyed by thread id, up to the point where it has
\* looked the thread id up. No lock is taken. When the thread has a node, the
\* entry of the queue family is found or inserted in the thread's own inner
\* map and the getter holds a reference to it; when it has none, the thread
\* has read the list of nodes (seen) and is about to link a new node to it.
GlobalPool_Find(t, which, family) ==
    /\ Alive /\ getter[t].pc = "idle"
    /\ LET tid == ThreadIdOf(t)
           key == RegistryKey(which, tid, family)
           cache == Registry(which)
       IN  IF tid \in OuterKeys(cache)
           THEN /\ SetRegistry(which, IF key \in DOMAIN cache THEN cache
                                      ELSE WithEntry(cache, key, 0))
                /\ getter' = [getter EXCEPT ![t] =
                                 [pc |-> "holding", which |-> which,
                                  key |-> key, seen |-> {},
                                  slot |-> Cached(cache, key)]]
           ELSE /\ getter' = [getter EXCEPT ![t] =
                                 [pc |-> "inserting", which |-> which,
                                  key |-> key, seen |-> OuterKeys(cache),
                                  slot |-> 0]]
                /\ UNCHANGED <<m_global_onetime_command_pools,
                               m_global_resetable_command_pools,
                               m_global_descriptor_pool>>
    /\ UNCHANGED <<coreVars, last, notRegistryVars, poolFlags,
                   descriptorPools, granted>>

\* operator[] links the new node: the list becomes the nodes the thread read
\* in GlobalPool_Find and the new node, which holds a null pool. A node
\* another thread linked in between is no longer reachable from the map.
GlobalPool_Insert(t) ==
    /\ Alive /\ getter[t].pc = "inserting"
    /\ LET g == getter[t]
           cache == Registry(g.which)
           linked == {k \in DOMAIN cache : k[1] \in g.seen}
       IN  SetRegistry(g.which,
                       WithEntry([k \in linked |-> cache[k]], g.key, 0))
    /\ getter' = [getter EXCEPT ![t].pc = "holding", ![t].seen = {}]
    /\ UNCHANGED <<coreVars, last, notRegistryVars, poolFlags,
                   descriptorPools, granted>>

\* if (pool == nullptr) pool = (a new pool); return pool. The test and the
\* assignment go through the reference operator[] returned, whether or not
\* its node is still reachable from the map. createOk: the creation of the
\* native pool succeeds; when it fails the getter throws.
GlobalPool_Return(t, createOk) ==
    /\ Alive /\ getter[t].pc = "holding"
    /\ LET g == getter[t]
           cache == Registry(g.which)
           pool == IF g.slot # 0 THEN g.slot
                   ELSE IF g.which = "descriptor" THEN descriptorPools + 1
                   ELSE Len(poolFlags) + 1
       IN  IF g.slot # 0
           THEN /\ granted' = granted \cup {<<g.which, g.key, pool>>}
                /\ UNCHANGED <<poolVars, m_global_descriptor_pool,
                               descriptorPools>>
           ELSE IF ~createOk
           THEN UNCHANGED <<poolVars, m_global_descriptor_pool,
                            descriptorPools, granted>>
           ELSE /\ IF g.which = "descriptor"
                   THEN /\ descriptorPools < MaxDescriptorPools
                        /\ descriptorPools' = descriptorPools + 1
                        /\ UNCHANGED poolFlags
                   ELSE /\ Len(poolFlags) < MaxPools
                        /\ poolFlags' =
                               Append(poolFlags, RegistryFlags(g.which))
                        /\ UNCHANGED descriptorPools
                /\ SetRegistry(g.which,
                               IF g.key \in DOMAIN cache
                               THEN WithEntry(cache, g.key, pool) ELSE cache)
                /\ granted' = granted \cup {<<g.which, g.key, pool>>}
    /\ getter' = [getter EXCEPT ![t] = NoGetter]
    /\ UNCHANGED <<coreVars, last, notRegistryVars>>

\* ------------------------------------------------ semaphores and fences
\* Semaphore::Semaphore(context, flags) / Fence::Fence(context, flags), as
\* called by CreateSemaphore / CreateFence. createOk: vkCreateSemaphore /
\* vkCreateFence succeeds; on failure the constructor throws and no object
\* comes to exist.
Sync_Create(t, o, createOk) ==
    /\ Alive /\ Idle(t) /\ o \in SyncObjects
    /\ syncState[o] = "unborn"
    /\ createOk
    /\ syncState' = [syncState EXCEPT ![o] = "alive"]
    /\ m_sync_handle' = [m_sync_handle EXCEPT ![o] = o]
    /\ UNCHANGED <<coreVars, last, notSyncVars, destroyCount>>

\* Variant of MovedFromHandle: the source gives the handle up.
MovedFromHandle_Nulled(src) == "VK_NULL_HANDLE"

\* The source's handle member after the move constructor: the constructor
\* copies rvalue.m_semaphore / rvalue.m_fence and does not write to rvalue.
MovedFromHandle(src) == m_sync_handle[src]

\* Semaphore(Semaphore&&) / Fence(Fence&&): dst is constructed from src.
Sync_MoveConstruct(t, dst, src) ==
    /\ Alive /\ Idle(t)
    /\ {dst, src} \subseteq Semaphores \/ {dst, src} \subseteq Fences
    /\ dst # src
    /\ syncState[dst] = "unborn" /\ syncState[src] = "alive"
    /\ syncState' = [syncState EXCEPT ![dst] = "alive"]
    /\ m_sync_handle' = [m_sync_handle EXCEPT ![dst] = m_sync_handle[src],
                                              ![src] = MovedFromHandle(src)]
    /\ UNCHANGED <<coreVars, last, notSyncVars, destroyCount>>

\* ~Semaphore / ~Fence: vkDestroySemaphore / vkDestroyFence on the handle
\* member, unconditionally (destroying VK_NULL_HANDLE is a no-op).
Sync_Destroy(t, o) ==
    /\ Alive /\ Idle(t) /\ o \in SyncObjects
    /\ syncState[o] = "alive"
    /\ syncState' = [syncState EXCEPT ![o] = "destroyed"]
    /\ destroyCount' =
           IF m_sync_handle[o] = "VK_NULL_HANDLE" THEN destroyCount
           ELSE [destroyCount EXCEPT ![m_sync_handle[o]] = @ + 1]
    /\ UNCHANGED <<coreVars, last, notSyncVars, m_sync_handle>>

\* ------------------------------------------------------ main specification
\* No object has been created from the context; the image is as AllocateImage
\* leaves it.
InitSections ==
    /\ m_global_descriptor_pool = <<>>
    /\ descriptorPools = 0
    /\ getter = [t \in Threads |-> NoGetter]
    /\ granted = {}
    /\ bufferCopy = NoBufferCopy
    /\ queueFamilies = <<>>
    /\ familiesChecked = "none"
    /\ phyDevCnt = 0
    /\ deviceIndex = 0
    /\ m_physical_device = 0
    /\ selectedDevice = NoDevice
    /\ m_device_queue_family = NoQueueFamilies
    /\ m_surface_formats = 0
    /\ m_surface_present_modes = 0
    /\ deviceOutcome = "none"
    /\ skippedQualified = FALSE
    /\ fenceSubmission = 0
    /\ m_allocation = [b \in {"staging", "uniform"} |-> {"VK_NULL_HANDLE"}]
    /\ mapCount = [b \in {"staging", "uniform"} |-> 0]
    /\ bufferMemory = [b \in {"staging", "uniform"} |-> "none"]
    /\ strayWrite = FALSE
    /\ m_image_sampler = [img \in {"texture1", "texture2"} |-> "nullptr"]
    /\ m_descriptor_set = [b \in 0..MaxDescBinding |-> "none"]
    /\ m_image_layout = "VK_IMAGE_LAYOUT_UNDEFINED"
    /\ recorded = <<>>
    /\ m_global_onetime_command_pools = <<>>
    /\ m_global_resetable_command_pools = <<>>
    /\ poolFlags = <<>>
    /\ syncState = [o \in SyncObjects |-> "unborn"]
    /\ m_sync_handle = [o \in SyncObjects |-> "VK_NULL_HANDLE"]
    /\ destroyCount = [h \in SyncObjects |-> 0]

\* The sections, with the surface the other specifications keep fixed.
InitExt ==
    /\ InitSurfaceFixed
    /\ InitSections

\* No swapchain has been created: the members as value-initialised.
InitSwapChainNone ==
    /\ swapChainCreateInfo = [minImageCount |-> 0, imageExtent |-> <<0, 0>>]
    /\ m_swapchain_current_extent = <<0, 0>>
    /\ m_swapchain_image_count = 0
    /\ depthPeak = 0
    /\ m_swapchain_imageviews = <<>>
    /\ handleUse = "none"
    /\ m_swapchain_current_image_index = 0
    /\ indexUse = "none"

\* create_swap_chain has run once against the surface.
InitSwapChainCreated ==
    /\ swapChainCreateInfo = [minImageCount |-> RequestedImageCount,
                              imageExtent |-> ChosenExtent]
    /\ m_swapchain_current_extent = ChosenExtent
    /\ m_swapchain_image_count = RequestedImageCount + extraImages
    /\ depthPeak = 1
    /\ m_swapchain_imageviews = LiveViews(RequestedImageCount + extraImages)
    /\ handleUse = "none"
    /\ m_swapchain_current_image_index = 0
    /\ indexUse = "none"

\* No graphics pipeline is being built.
InitLayoutNone ==
    /\ vertex_shader = {}
    /\ fragment_shader = {}
    /\ descriptorSets = <<>>
    /\ deduceOutcome = "none"
    /\ vertex_push_constants = {}
    /\ fragment_push_constants = {}
    /\ push_constants = <<>>

\* No context has been constructed.
InitOwnNone ==
    /\ externalHolders = 0
    /\ contextState = "unborn"
    /\ m_memory_allocator = "null"
    /\ allocatorState = "unborn"
    /\ resourceRefs = [r \in Resources |-> 0]
    /\ resourceState = [r \in Resources |-> "unborn"]
    /\ releaseCount = [r \in Resources |-> 0]
    /\ initialized = <<>>
    /\ released = <<>>

\* VulkanContext::Create has returned the context to the application.
InitOwnCreated ==
    /\ externalHolders = 1
    /\ contextState = "alive"
    /\ m_memory_allocator = "set"
    /\ allocatorState = "alive"
    /\ resourceRefs = [r \in Resources |-> IF r = "depth" THEN 1 ELSE 0]
    /\ resourceState =
           [r \in Resources |-> IF r = "depth" THEN "alive" ELSE "unborn"]
    /\ releaseCount = [r \in Resources |-> 0]
    /\ initialized = InitOrder
    /\ released = <<>>

\* Before VulkanContext::Create: no context, the statics as initialised.
Init ==
    /\ aborted = FALSE
    /\ NO_VULKAN_CONTEXTS = TRUE
    /\ liveContexts = 0
    /\ RECREATING = FALSE
    /\ pc = [t \in Threads |-> "idle"]
    /\ steps = [t \in Threads |-> <<>>]
    /\ oldWork = [t \in Threads |-> {}]
    /\ seenZero = [t \in Threads |-> FALSE]
    /\ m_swapchain = "null"
    /\ surfaceSpecial = FALSE
    /\ fbZero = FALSE
    /\ eventPending = FALSE
    /\ stale = FALSE
    /\ pending = {}
    /\ nextSubmit = 1
    /\ submitOf = [cb \in CommandBuffers |-> 0]
    /\ m_is_recording = [cb \in CommandBuffers |-> FALSE]
    /\ handle = [cb \in CommandBuffers |-> "valid"]
    /\ last = NoCall
    /\ InitExt
    /\ InitOwnNone
    /\ InitSwapChainNone
    /\ InitLayoutNone

\* The window keeps a non-zero framebuffer in this specification; the native
\* acquire / present may report any result code.
Next ==
    \/ \E k \in 0..Len(CreateSteps) : VulkanContext_Create(k)
    \/ \E t \in Threads, r \in ResultCodes : NextSwapChainImageIndex(t, r)
    \/ \E t \in Threads, r \in ResultCodes : PresentSwapChain(t, r)
    \/ \E t \in Threads : Recreate_Check(t)
    \/ \E t \in Threads : Recreate_WaitDeviceIdle(t)
    \/ \E t \in Threads : Recreate_SetFlag(t)
    \/ \E t \in Threads : destroy_swap_chain(t)
    \/ \E t \in Threads : create_swap_chain_extent(t)
    \/ \E t \in Threads, k \in {0} \cup ThrowingBuildSteps :
           create_swap_chain_build(t, k)
    \/ \E t \in Threads : Recreate_ClearFlag(t)
    \/ \E t \in Threads, cb \in ResetBuffers, w \in BOOLEAN, ok \in BOOLEAN :
           CommandBufferReset_Submit(t, cb, w, FALSE, ok)
    \/ \E id \in 1..MaxSubmits : GpuComplete(id)

Spec == Init /\ [][Next]_vars

\* ------------------------------------------------- window specification
\* One caller thread runs the frame loop against a window that can be
\* minimized and restored: it acquires, and answers every swapchain_error
\* by RecreateSwapChain before it acquires again.
Caller == CHOOSE t \in Threads : TRUE

\* What the native acquire reports for the current surface.
ReportedResults == IF stale THEN StaleCodes ELSE {"VK_SUCCESS"}

CallerRecreates ==
    /\ last.op \in {"NextSwapChainImageIndex", "PresentSwapChain"}
    /\ last.outcome = "swapchain_error"

CallerPresents ==
    last.op = "NextSwapChainImageIndex" /\ last.outcome = "ok"

CallerAcquires == ~CallerRecreates /\ ~CallerPresents

\* A context exists, its swapchain is stale for the surface.
InitWindow ==
    /\ aborted = FALSE
    /\ NO_VULKAN_CONTEXTS = FALSE
    /\ liveContexts = 1
    /\ RECREATING = FALSE
    /\ pc = [t \in Threads |-> "idle"]
    /\ steps = [t \in Threads |-> <<>>]
    /\ oldWork = [t \in Threads |-> {}]
    /\ seenZero = [t \in Threads |-> FALSE]
    /\ m_swapchain = "live"
    /\ surfaceSpecial \in BOOLEAN
    /\ fbZero \in BOOLEAN
    /\ eventPending = FALSE
    /\ stale = TRUE
    /\ pending = {}
    /\ nextSubmit = 1
    /\ submitOf = [cb \in CommandBuffers |-> 0]
    /\ m_is_recording = [cb \in CommandBuffers |-> FALSE]
    /\ handle = [cb \in CommandBuffers |-> "valid"]
    /\ last = NoCall
    /\ InitExt
    /\ InitOwnCreated
    /\ InitSwapChainCreated
    /\ InitLayoutNone

CallerStep ==
    \/ /\ CallerAcquires
       /\ \E r \in ReportedResults : NextSwapChainImageIndex(Caller, r)
    \/ /\ CallerPresents
       /\ \E r \in ReportedResults : PresentSwapChain(Caller, r)
    \/ CallerRecreates /\ Recreate_Check(Caller)
    \/ Recreate_WaitDeviceIdle(Caller)
    \/ Recreate_SetFlag(Caller)
    \/ destroy_swap_chain(Caller)
    \/ create_swap_chain_extent(Caller)
    \/ poll_GetFramebufferSize(Caller)
    \/ poll_WaitEvents(Caller)
    \/ create_swap_chain_build(Caller, 0)
    \/ Recreate_ClearFlag(Caller)

NextWindow ==
    \/ CallerStep
    \/ Minimize
    \/ Restore
    \/ OtherEvent

\* The caller thread is scheduled as long as it can take a step; nothing is
\* assumed about the arrival of window events.
LiveSpec == InitWindow /\ [][NextWindow]_vars /\ WF_vars(CallerStep)

\* ------------------------------------------- command-buffer specification
\* A Device Context exists and the command buffers have been allocated.
InitCreated ==
    /\ aborted = FALSE
    /\ NO_VULKAN_CONTEXTS = FALSE
    /\ liveContexts = 1
    /\ RECREATING = FALSE
    /\ pc = [t \in Threads |-> "idle"]
    /\ steps = [t \in Threads |-> <<>>]
    /\ oldWork = [t \in Threads |-> {}]
    /\ seenZero = [t \in Threads |-> FALSE]
    /\ m_swapchain = "live"
    /\ surfaceSpecial = FALSE
    /\ fbZero = FALSE
    /\ eventPending = FALSE
    /\ stale = FALSE
    /\ pending = {}
    /\ nextSubmit = 1
    /\ submitOf = [cb \in CommandBuffers |-> 0]
    /\ m_is_recording = [cb \in CommandBuffers |-> FALSE]
    /\ handle = [cb \in CommandBuffers |-> "valid"]
    /\ last = NoCall
    /\ InitExt
    /\ InitOwnCreated
    /\ InitSwapChainCreated

InitCmd == InitCreated /\ InitLayoutNone

NextCmd ==
    \/ \E t \in Threads, cb \in ResetBuffers, ok \in BOOLEAN :
           CommandBufferReset_Begin(t, cb, ok)
    \/ \E t \in Threads, cb \in OneTimeBuffers, ok \in BOOLEAN :
           CommandBufferOneTime_Begin(t, cb, ok)
    \/ \E t \in Threads, cb \in CommandBuffers, ok \in BOOLEAN :
           CommandBuffer_End(t, cb, ok)
    \/ \E t \in Threads, cb \in ResetBuffers, w \in BOOLEAN,
          f \in BOOLEAN, ok \in BOOLEAN :
           CommandBufferReset_Submit(t, cb, w, f, ok)
    \/ \E t \in Threads, cb \in OneTimeBuffers, w \in BOOLEAN,
          f \in BOOLEAN, ok \in BOOLEAN :
           CommandBufferOneTime_Submit(t, cb, w, f, ok)
    \/ \E id \in 1..MaxSubmits : GpuComplete(id)

SpecCmd == InitCmd /\ [][NextCmd]_vars

\* -------------------------------------------------- image specification
\* A Device Context exists; one image has been allocated and the callers
\* record into their command buffers or use the blocking variants.
InitImg == InitCmd

\* Copies of a whole buffer into another of any size.
WholeBufferCopies ==
    {req \in CopyRequests :
        req.size = 0 /\ req.offset_src = 0 /\ req.offset_dst = 0}

NextImg ==
    \/ \E t \in Threads, cb \in ResetBuffers :
           CommandBufferReset_Begin(t, cb, TRUE)
    \/ \E t \in Threads, cb \in CommandBuffers : CommandBuffer_End(t, cb, TRUE)
    \/ \E t \in Threads, cb \in CommandBuffers, target \in Layouts :
           Image_TransitionLayoutCommand(t, cb, target)
    \/ \E t \in Threads, target \in Layouts, k \in NativeFailures :
           Image_TransitionLayout(t, target, k)
    \/ \E t \in Threads, cb \in CommandBuffers, sizeOk \in BOOLEAN :
           Image_WriteCommand(t, cb, sizeOk)
    \/ \E t \in Threads, sizeOk \in BOOLEAN, k \in NativeFailures :
           Image_Write(t, sizeOk, k)
    \/ \E t \in Threads, cb \in CommandBuffers, req \in WholeBufferCopies :
           Buffer_CopyCommand(t, cb, req)
    \/ \E t \in Threads, k \in NativeFailures : Screenshot(t, k)

SpecImg == InitImg /\ [][NextImg]_vars

\* --------------------------------------------------- pool specification
\* A Device Context exists; threads create pools, request the global pools
\* and allocate command buffers, one call at a time.
InitPool == InitCmd

\* The (thread id, queue family) pairs requested: two pairs that differ in
\* the thread only, two that differ in the family only.
RequestedPairs ==
    {<<"main", "q0">>, <<"main", "q1">>, <<"worker", "q0">>}

\* The calls are made one at a time; which thread makes a call does not
\* matter to it, the thread id it passes does.
NextPool ==
    \/ \E f \in QueueFamilyIndexes, fl \in SUBSET PoolFlagBits,
          ok \in BOOLEAN : CreateCommandPool(Caller, f, fl, ok)
    \/ \E pool \in 1..MaxPools, ok \in BOOLEAN :
           CommandPool_AllocateCommandBuffer(Caller, pool, ok)
    \/ \E k \in RequestedPairs, ok \in BOOLEAN :
           GetGlobalOneTimeCommandPool(Caller, k[2], k[1], ok)
    \/ \E k \in RequestedPairs, ok \in BOOLEAN :
           GetGlobalResetableCommandPool(Caller, k[2], k[1], ok)
    \/ \E k \in RequestedPairs, ok \in BOOLEAN, aok \in BOOLEAN :
           CreateOneTimeCommandBuffer(Caller, k[2], k[1], ok, aok)
    \/ \E k \in RequestedPairs, ok \in BOOLEAN, aok \in BOOLEAN :
           CreateResetableCommandBuffer(Caller, k[2], k[1], ok, aok)

SpecPool == InitPool /\ [][NextPool]_vars

\* ------------------------------------------- concurrent getter specification
\* A Device Context exists; every thread requests its own global pools, with
\* its own thread id, and the steps of the threads interleave freely.
\* The (thread id, queue family) pairs the threads request: one queue family
\* each.
RacePairs == {<<"main", "q0">>, <<"worker", "q0">>}

NextRace ==
    \/ \E t \in Threads, which \in Registries, k \in RacePairs :
           /\ k[1] = ThreadIdOf(t)
           /\ GlobalPool_Find(t, which, k[2])
    \/ \E t \in Threads : GlobalPool_Insert(t)
    \/ \E t \in Threads, ok \in BOOLEAN : GlobalPool_Return(t, ok)

SpecRace == InitPool /\ [][NextRace]_vars

\* ------------------------------------- semaphore and fence specification
\* A Device Context exists; semaphores and fences are created, moved from
\* and destroyed.
InitSync == InitCmd

NextSync ==
    \/ \E o \in SyncObjects : Sync_Create(Caller, o, TRUE)
    \/ \E dst, src \in SyncObjects : Sync_MoveConstruct(Caller, dst, src)
    \/ \E o \in SyncObjects : Sync_Destroy(Caller, o)

SpecSync == InitSync /\ [][NextSync]_vars

\* ------------------------------------------- layout-deduction specification
\* A graphics pipeline is built from a vertex and a fragment shader that each
\* declare any of the (set, binding) pairs.
InitLayout ==
    /\ InitCreated
    /\ vertex_shader \in SUBSET BindingPairs
    /\ fragment_shader \in SUBSET BindingPairs
    /\ descriptorSets = <<>>
    /\ deduceOutcome = "none"
    /\ vertex_push_constants = {}
    /\ fragment_push_constants = {}
    /\ push_constants = <<>>

NextLayout ==
    \E tieFront \in BOOLEAN, ok \in BOOLEAN :
        deduce_pipeline_states_from_shaders(Caller, tieFront, ok)

SpecLayout == InitLayout /\ [][NextLayout]_vars

\* The two shaders declare any of the push-constant ranges (and no descriptor).
InitPush ==
    /\ InitCreated
    /\ vertex_shader = {}
    /\ fragment_shader = {}
    /\ descriptorSets = <<>>
    /\ deduceOutcome = "none"
    /\ vertex_push_constants \in SUBSET PushRanges
    /\ fragment_push_constants \in SUBSET PushRanges
    /\ push_constants = <<>>

SpecPush == InitPush /\ [][NextLayout]_vars

\* ------------------------------------------------------ fence specification
\* The application creates the fence, submits a resettable command buffer
\* with or without it, waits on the fence and resets it, while the GPU
\* completes the submissions.
InitFence == InitCmd

NextFence ==
    \/ Sync_Create(Caller, GuardFence, TRUE)
    \/ \E cb \in ResetBuffers : CommandBufferReset_Begin(Caller, cb, TRUE)
    \/ \E cb \in ResetBuffers : CommandBuffer_End(Caller, cb, TRUE)
    \/ \E cb \in ResetBuffers, f \in BOOLEAN, ok \in BOOLEAN :
           /\ f => syncState[GuardFence] = "alive"
           /\ CommandBufferReset_Submit(Caller, cb, FALSE, f, ok)
    \/ \E reset \in BOOLEAN, timeout \in Timeouts :
           Fence_Wait(Caller, GuardFence, reset, timeout)
    \/ Fence_Reset(Caller, GuardFence)
    \/ \E id \in 1..MaxSubmits : GpuComplete(id)

SpecFence == InitFence /\ [][NextFence]_vars

\* ----------------------------------------------- host-write specification
\* The application allocates two Buffers with any combination of the host
\* access arguments and writes them.
InitBuf == InitCmd

NextBuf ==
    \/ \E b \in HostBuffers, w \in BOOLEAN, r \in BOOLEAN, m \in BOOLEAN,
          ok \in BOOLEAN :
           VMA_AllocateBuffer(Caller, b, w, r, m, ok)
    \/ \E b \in HostBuffers, data \in HostData, mapOk \in BOOLEAN,
          crash \in BOOLEAN :
           Buffer_Write(Caller, b, data, mapOk, crash)

SpecBuf == InitBuf /\ [][NextBuf]_vars

\* ----------------------------------------------- descriptor specification
\* The application binds samplers to two images and writes them into the
\* bindings of one descriptor set.
InitDesc == InitCmd

NextDesc ==
    \/ \E img \in DescImages, sampler \in {"nullptr", "sampler"} :
           Image_BindSampler(Caller, img, sampler)
    \/ \E b \in DescBindings, img \in DescImages :
           DescriptorSet_WriteImage(Caller, b, img)
    \/ \E n \in 1..MaxWriteImages, offset \in DescBindings :
           \E data \in [1..n -> DescImages] :
               DescriptorSet_WriteImages(Caller, data, offset)

SpecDesc == InitDesc /\ [][NextDesc]_vars

\* --------------------------------------------------- ownership specification
\* From before VulkanContext::Create: the application creates the context,
\* copies and drops its pointers, allocates and releases Buffers and Images
\* and asks for global command pools while it holds the context.
InitOwn == Init

NextOwn ==
    \/ \E k \in 0..Len(CreateSteps) : VulkanContext_Create(k)
    \/ Context_Share(Caller)
    \/ Context_Release(Caller)
    \/ \E r \in UserResources, ok \in BOOLEAN :
           Allocator_Allocate(Caller, r, ok)
    \/ \E r \in UserResources : Resource_Share(Caller, r)
    \/ \E r \in UserResources : Resource_Release(Caller, r)
    \/ /\ externalHolders > 0
       /\ GetGlobalOneTimeCommandPool(Caller, "q0", "main", TRUE)

SpecOwn == InitOwn /\ [][NextOwn]_vars

\* Destructors run inside the step that drops the last reference, so weak
\* fairness of the application's steps is all the scheduling adds.
LiveSpecOwn == InitOwn /\ [][NextOwn]_vars /\ WF_vars(NextOwn)

\* ----------------------------------------- swapchain value specifications
\* Before VulkanContext::Create, the surface not yet described.
InitNoContext ==
    /\ aborted = FALSE
    /\ NO_VULKAN_CONTEXTS = TRUE
    /\ liveContexts = 0
    /\ RECREATING = FALSE
    /\ pc = [t \in Threads |-> "idle"]
    /\ steps = [t \in Threads |-> <<>>]
    /\ oldWork = [t \in Threads |-> {}]
    /\ seenZero = [t \in Threads |-> FALSE]
    /\ m_swapchain = "null"
    /\ fbZero = FALSE
    /\ eventPending = FALSE
    /\ stale = FALSE
    /\ pending = {}
    /\ nextSubmit = 1
    /\ submitOf = [cb \in CommandBuffers |-> 0]
    /\ m_is_recording = [cb \in CommandBuffers |-> FALSE]
    /\ handle = [cb \in CommandBuffers |-> "valid"]
    /\ last = NoCall
    /\ InitSections
    /\ InitOwnNone
    /\ InitSwapChainNone
    /\ InitLayoutNone

\* The image counts a surface reports: maxImageCount is 0 (no limit) or at
\* least minImageCount.
ImageCounts ==
    {c \in (1..MaxMinImages) \X (0..(MaxMinImages + 2)) :
        c[2] = 0 \/ (c[1] <= c[2] /\ c[2] <= c[1] + 2)}

InitCount ==
    /\ InitNoContext
    /\ surfaceSpecial \in BOOLEAN
    /\ \E c \in ImageCounts :
           surfaceCapabilities = [minImageCount |-> c[1],
                                  maxImageCount |-> c[2],
                                  minImageExtent |-> <<1, 1>>,
                                  maxImageExtent |-> <<1, 1>>,
                                  currentExtent |-> <<1, 1>>]
    /\ windowSize = <<1, 1>>
    /\ extraImages \in 0..MaxExtraImages

\* One thread creates the context and recreates the swapchain; the window
\* is minimized and restored meanwhile.
NextSurface ==
    \/ \E k \in {0, Len(CreateSteps)} : VulkanContext_Create(k)
    \/ Recreate_Check(Caller)
    \/ Recreate_WaitDeviceIdle(Caller)
    \/ Recreate_SetFlag(Caller)
    \/ destroy_swap_chain(Caller)
    \/ create_swap_chain_extent(Caller)
    \/ poll_GetFramebufferSize(Caller)
    \/ poll_WaitEvents(Caller)
    \/ \E k \in {0} \cup ThrowingBuildSteps :
           create_swap_chain_build(Caller, k)
    \/ Recreate_ClearFlag(Caller)
    \/ Minimize
    \/ Restore
    \/ OtherEvent

SpecCount == InitCount /\ [][NextSurface]_vars

\* Componentwise order of two extents.
ExtentLeq(a, b) == a[1] <= b[1] /\ a[2] <= b[2]

\* The sizes the framebuffer of a window with an area can have.
WindowSizes == (1..(MaxExtent + 1)) \X (1..(MaxExtent + 1))

\* A surface either leaves the extent to the application (its range then
\* starts above zero) or reports the extent it has, which lies in its range
\* and is 0 x 0 where a minimized window has no surface area.
InitExtent ==
    /\ InitNoContext
    /\ surfaceSpecial \in BOOLEAN
    /\ \E lo \in Extents, hi \in Extents, cur \in Extents :
           /\ ExtentLeq(lo, hi)
           /\ IF surfaceSpecial
              THEN ExtentLeq(<<1, 1>>, lo) /\ cur = <<0, 0>>
              ELSE ExtentLeq(lo, cur) /\ ExtentLeq(cur, hi)
           /\ surfaceCapabilities = [minImageCount |-> 2, maxImageCount |-> 0,
                                     minImageExtent |-> lo,
                                     maxImageExtent |-> hi,
                                     currentExtent |-> cur]
    /\ IF surfaceSpecial THEN windowSize \in WindowSizes
       ELSE windowSize = <<1, 1>>
    /\ extraImages = 0

SpecExtent == InitExtent /\ [][NextSurface]_vars

\* ------------------------------------------- device selection specification
InitDevice == Init

NextDevice ==
    \/ \E n \in 0..MaxDevices : create_physical_device_enumerate(n)
    \/ \E d \in Devices(deviceIndex + 1) : create_physical_device_examine(d)

SpecDevice == InitDevice /\ [][NextDevice]_vars

\* ------------------------------------------------ frame specification
\* One thread acquires, presents and recreates the swapchain of a created
\* context; native calls of create_swap_chain can fail, and the driver may
\* give the next swapchain more images than are asked for.
NextFrame ==
    \/ \E r \in ResultCodes : NextSwapChainImageIndex(Caller, r)
    \/ \E r \in ResultCodes : PresentSwapChain(Caller, r)
    \/ Recreate_Check(Caller)
    \/ Recreate_WaitDeviceIdle(Caller)
    \/ Recreate_SetFlag(Caller)
    \/ destroy_swap_chain(Caller)
    \/ create_swap_chain_extent(Caller)
    \/ \E k \in {0} \cup ThrowingBuildSteps :
           create_swap_chain_build(Caller, k)
    \/ Recreate_ClearFlag(Caller)
    \/ \E n \in 0..MaxExtraImages : vkGetSwapchainImagesKHR(n)
    \/ \E k \in NativeFailures : Screenshot(Caller, k)
    \/ \E cb \in ResetBuffers : CommandBufferReset_Begin(Caller, cb, TRUE)
    \/ \E cb \in ResetBuffers : RenderPass_Begin(Caller, cb)

SpecFrame == InitCmd /\ [][NextFrame]_vars

\* ------------------------------------------------- copy specification
\* One thread begins a command buffer and records buffer copies with any
\* size and offsets between buffers of any size.
NextCopy ==
    \/ \E cb \in ResetBuffers : CommandBufferReset_Begin(Caller, cb, TRUE)
    \/ \E cb \in ResetBuffers, req \in CopyRequests :
           Buffer_CopyCommand(Caller, cb, req)

SpecCopy == InitCmd /\ [][NextCopy]_vars

\* ------------------------------------------ queue family specification
NextFamilies ==
    \/ vkGetPhysicalDeviceQueueFamilyProperties
    \/ queue_families_support

SpecFamilies == Init /\ [][NextFamilies]_vars

\* ================================================================ claims
IsPrefix(s, r) ==
    /\ Len(s) <= Len(r)
    /\ \A i \in 1..Len(s) : s[i] = r[i]

\* C1: a OneTime command buffer's native handle is never freed while the GPU
\* work enqueued by its Submit is still outstanding, whatever the Submit
\* arguments (waitIdle, fence) were.
C1_FreedOnlyAfterCompletion ==
    \A cb \in OneTimeBuffers : handle[cb] # "valid" => ~IsPending(cb)

\* C2: Begin never resets a Resettable command buffer while GPU work of an
\* earlier Submit of that buffer is still outstanding.
C2_NoResetWhilePending ==
    (last.op = "Begin" /\ last.cb \in ResetBuffers /\ last.outcome # "assert")
        => ~last.wasPending

\* C3: a RecreateSwapChain call issued while another thread is between the
\* entry and the return of its own call fails with the concurrent-recreation
\* error, and at most one thread is inside the destroy_swap_chain /
\* create_swap_chain section.
InsideSection ==
    {"destroy", "create", "poll_get", "poll_wait", "build"}

C3_SingleFlight ==
    /\ (last.op = "RecreateSwapChain" /\ last.otherRunning
        /\ last.outcome \in {"entered", "concurrent_error"})
           => last.outcome = "concurrent_error"
    /\ Cardinality({t \in Threads : pc[t] \in InsideSection}) <= 1

\* C4: while one thread is between destroying the old swapchain and finishing
\* the creation of the new one, no acquire, present or command-buffer Submit
\* of another thread goes through.
C4_RecreationSerializes ==
    last.op \in {"NextSwapChainImageIndex", "PresentSwapChain", "Submit"}
        => ~last.duringRecreate

\* C5: every RecreateSwapChain call runs its steps in the order wait-idle,
\* destroy image views and swapchain, re-query capabilities, derive extent,
\* create swapchain, images and views; and at the moment it tears the
\* swapchain down no submitted GPU work is outstanding.
C5_WaitIdleBeforeTeardown ==
    /\ [](\A t \in Threads : IsPrefix(steps[t], RecreateOrder))
    /\ [][\A t \in Threads :
              (pc[t] = "destroy" /\ pc'[t] = "create") => pending = {}]_vars

\* C6: acquire and present return normally exactly on VK_SUCCESS, throw
\* swapchain_error exactly on out-of-date or suboptimal, and throw a generic
\* error on every other result code, a timeout included.
C6_ResultMapping ==
    last.op \in {"NextSwapChainImageIndex", "PresentSwapChain"} =>
        /\ last.outcome = "ok" <=> last.result = "VK_SUCCESS"
        /\ last.outcome = "swapchain_error" <=>
               last.result \in {"VK_ERROR_OUT_OF_DATE_KHR",
                                "VK_SUBOPTIMAL_KHR"}
        /\ last.outcome = "runtime_error" <=>
               last.result \notin {"VK_SUCCESS", "VK_ERROR_OUT_OF_DATE_KHR",
                                   "VK_SUBOPTIMAL_KHR"}

C6_Witness ==
    /\ last.op = "NextSwapChainImageIndex"
    /\ last.result = "VK_TIMEOUT"
    /\ last.outcome = "runtime_error"

\* C7: starting from a stale swapchain, a caller that answers every
\* swapchain_error by RecreateSwapChain and retries keeps obtaining
\* successful acquires once the framebuffer stays non-zero; in particular
\* the framebuffer poll of create_swap_chain ends.
C7_RecreateRetrySucceeds ==
    <>[](~fbZero) =>
        []<>(last.op = "NextSwapChainImageIndex" /\ last.outcome = "ok")

C9_BeginEndStateMachine ==
    /\ last.op = "Begin" =>
           /\ last.wasRecording =>
                  last.outcome = "assert" /\ IsRecording(last.cb)
           /\ last.outcome = "ok" =>
                  ~last.wasRecording /\ IsRecording(last.cb)
    /\ last.op = "End" =>
           /\ ~last.wasRecording =>
                  last.outcome = "assert" /\ ~IsRecording(last.cb)
           /\ last.outcome = "ok" =>
                  last.wasRecording /\ ~IsRecording(last.cb)

C9_Witness ==
    /\ last.op = "Begin"
    /\ last.cb \in OneTimeBuffers
    /\ last.wasRecording
    /\ last.outcome = "assert"
    /\ IsRecording(last.cb)

C11_OneTimeTerminal ==
    /\ \A cb \in OneTimeBuffers : handle[cb] # "double_freed"
    /\ (last.op \in {"Begin", "End", "Submit"} /\ last.cb \in OneTimeBuffers
        /\ last.wasFreed) => last.outcome \notin {"ok", "runtime_error"}

\* C12: a Resettable command buffer can repeat Begin, End, Submit: Submit
\* leaves the recording flag as it was (Idle after End) and the native handle
\* valid, and a Begin on the Idle buffer passes its check, resets the buffer,
\* and starts recording whenever vkBeginCommandBuffer succeeds.
C12_ResettableCycles ==
    /\ \A cb \in ResetBuffers : handle[cb] = "valid"
    /\ (last.op = "Submit" /\ last.cb \in ResetBuffers) =>
           /\ ~last.wasFreed
           /\ IsRecording(last.cb) = last.wasRecording
    /\ (last.op = "Begin" /\ last.cb \in ResetBuffers
        /\ ~last.wasRecording) =>
           /\ last.outcome \in {"ok", "runtime_error"}
           /\ last.didReset
           /\ ~last.wasFreed
           /\ last.outcome = "ok" => IsRecording(last.cb)

C12_Witness ==
    /\ last.op = "Begin"
    /\ last.cb \in ResetBuffers
    /\ last.outcome = "ok"
    /\ last.didReset
    /\ submitOf[last.cb] >= 2

\* The three supported layout transitions.
Whitelist ==
    {<<"VK_IMAGE_LAYOUT_UNDEFINED", "VK_IMAGE_LAYOUT_TRANSFER_DST_OPTIMAL">>,
     <<"VK_IMAGE_LAYOUT_UNDEFINED",
       "VK_IMAGE_LAYOUT_DEPTH_STENCIL_ATTACHMENT_OPTIMAL">>,
     <<"VK_IMAGE_LAYOUT_TRANSFER_DST_OPTIMAL",
       "VK_IMAGE_LAYOUT_SHADER_READ_ONLY_OPTIMAL">>}

\* C13: a transition (TransitionLayoutCommand on a recording command buffer,
\* or TransitionLayout) of an image recorded in layout "from" to "to" succeeds
\* and sets the recorded layout to "to" exactly when (from, to) is one of the
\* three supported pairs, the native calls succeeding; for every other pair
\* it fails with the unsupported-transition error, records no barrier and
\* leaves the recorded layout unchanged.
C13_TransitionWhitelist ==
    (last.op \in {"TransitionLayoutCommand", "TransitionLayout"}
     /\ last.outcome \in {"ok", "invalid_argument"}) =>
        /\ last.outcome = "ok" <=> <<last.from, last.target>> \in Whitelist
        /\ last.outcome = "ok" =>
               /\ m_image_layout = last.target
               /\ Len(recorded) = last.before + 1
               /\ recorded[Len(recorded)].cmd = "barrier"
               /\ recorded[Len(recorded)].oldLayout = last.from
               /\ recorded[Len(recorded)].newLayout = last.target
        /\ last.outcome = "invalid_argument" =>
               /\ m_image_layout = last.from
               /\ Len(recorded) = last.before

C13_Witness ==
    /\ last.op = "TransitionLayout"
    /\ last.outcome = "invalid_argument"
    /\ last.from = "VK_IMAGE_LAYOUT_SHADER_READ_ONLY_OPTIMAL"
    /\ last.target = "VK_IMAGE_LAYOUT_TRANSFER_DST_OPTIMAL"
    /\ m_image_layout = "VK_IMAGE_LAYOUT_SHADER_READ_ONLY_OPTIMAL"

\* C14: Write and WriteCommand, applied to an image in Undefined or in any
\* layout a previous operation left (a previous Write included), record the
\* transition to TransferDst, then the buffer-to-image copy, then the
\* transition to ShaderReadOnly, and return with the recorded layout
\* ShaderReadOnly (the checks on the arguments passing, the native calls
\* succeeding).
C14_WriteSequence ==
    (last.op \in {"Write", "WriteCommand"}
     /\ last.outcome \notin {"assert", "runtime_error"}) =>
        /\ last.outcome = "ok"
        /\ m_image_layout = "VK_IMAGE_LAYOUT_SHADER_READ_ONLY_OPTIMAL"
        /\ Len(recorded) = last.before + 3
        /\ recorded[last.before + 1].cmd = "barrier"
        /\ recorded[last.before + 1].newLayout =
               "VK_IMAGE_LAYOUT_TRANSFER_DST_OPTIMAL"
        /\ recorded[last.before + 2].cmd = "copy"
        /\ recorded[last.before + 3].cmd = "barrier"
        /\ recorded[last.before + 3].newLayout =
               "VK_IMAGE_LAYOUT_SHADER_READ_ONLY_OPTIMAL"

AllocationOps ==
    {"AllocateCommandBuffer", "CreateOneTimeCommandBuffer",
     "CreateResetableCommandBuffer"}

\* C15 as stated: a command buffer allocated from a pool is Resettable when
\* the pool was created reset-allowed and OneTime when it was created
\* transient; allocation fails for a pool created with neither flag; the
\* global one-time pool yields OneTime buffers and the global resettable pool
\* Resettable buffers (vkAllocateCommandBuffers succeeding).
C15_VariantByFlags ==
    (last.op \in AllocationOps /\ last.pool # 0 /\ last.nativeOk) =>
        /\ "VK_COMMAND_POOL_CREATE_RESET_COMMAND_BUFFER_BIT" \in last.flags
               => last.variant = "CommandBufferReset"
        /\ "VK_COMMAND_POOL_CREATE_TRANSIENT_BIT" \in last.flags
               => last.variant = "CommandBufferOneTime"
        /\ last.flags = {} => last.outcome = "runtime_error"
        /\ last.global = "onetime" => last.variant = "CommandBufferOneTime"
        /\ last.global = "resetable" => last.variant = "CommandBufferReset"

\* C15 amended: the reset-allowed flag decides first. A pool created with the
\* reset-allowed flag (with or without the transient flag) yields Resettable
\* buffers, a pool created with the transient flag and without the
\* reset-allowed flag yields OneTime buffers, a pool created with neither
\* fails to allocate; the global pools are as stated.
C15_ResetFlagDecidesFirst ==
    (last.op \in AllocationOps /\ last.pool # 0 /\ last.nativeOk) =>
        /\ "VK_COMMAND_POOL_CREATE_RESET_COMMAND_BUFFER_BIT" \in last.flags
               => last.variant = "CommandBufferReset" /\ last.outcome = "ok"
        /\ last.flags = {"VK_COMMAND_POOL_CREATE_TRANSIENT_BIT"}
               => last.variant = "CommandBufferOneTime" /\ last.outcome = "ok"
        /\ last.flags = {} =>
               last.outcome = "runtime_error" /\ last.variant = "none"
        /\ last.global = "onetime" => last.variant = "CommandBufferOneTime"
        /\ last.global = "resetable" => last.variant = "CommandBufferReset"

C15_Witness ==
    /\ last.op = "AllocateCommandBuffer"
    /\ last.flags = PoolFlagBits
    /\ last.nativeOk
    /\ last.variant = "CommandBufferReset"
    /\ last.outcome = "ok"

\* The keys of a cache that hold a pool.
Pooled(cache) == {k \in DOMAIN cache : cache[k] # 0}

\* Every pool of the cache has exactly the creation flags of its flavor.
FlavorOf(cache, flags) ==
    \A k \in Pooled(cache) :
        cache[k] \in DOMAIN poolFlags /\ poolFlags[cache[k]] = flags

\* Across a step: a cached pool stays under its key, and a key gets a pool
\* only by the creation of a new one.
CacheStep(cache, cacheNext) ==
    /\ DOMAIN cache \subseteq DOMAIN cacheNext
    /\ \A k \in Pooled(cache) : cacheNext[k] = cache[k]
    /\ \A k \in Pooled(cacheNext) \ Pooled(cache) :
           /\ cacheNext[k] = Len(poolFlags) + 1
           /\ Len(poolFlags') = Len(poolFlags) + 1
    /\ Cardinality(Pooled(cacheNext) \ Pooled(cache)) <= 1

\* A request adds an entry under its own key only.
DomainStep(op, cache, cacheNext) ==
    (last'.op = op /\ last' # last) =>
        DOMAIN cacheNext = DOMAIN cache \cup {last'.key}

\* What a global-pool request returned agrees with the cache it used.
RequestAnswer(op, cache) ==
    (last.op = op /\ last.outcome = "ok") =>
        /\ last.key \in Pooled(cache)
        /\ last.pool = cache[last.key]
        /\ last.hadPool # 0 =>
               last.pool = last.hadPool /\ Len(poolFlags) = last.count
        /\ last.hadPool = 0 => last.pool = last.count + 1

\* C16: for each flavor, the first request for a (thread, queue family) pair
\* creates the pool and every later request for the pair returns that pool;
\* the cache holds one pool per pair requested (no pool is cached under two
\* keys), and entries appear only under requested pairs.
C16_CreateIfAbsent ==
    /\ [](/\ FlavorOf(m_global_onetime_command_pools,
                      {"VK_COMMAND_POOL_CREATE_TRANSIENT_BIT"})
          /\ FlavorOf(m_global_resetable_command_pools,
                      {"VK_COMMAND_POOL_CREATE_RESET_COMMAND_BUFFER_BIT"})
          /\ \A k1, k2 \in Pooled(m_global_onetime_command_pools) :
                 m_global_onetime_command_pools[k1]
                     = m_global_onetime_command_pools[k2] => k1 = k2
          /\ \A k1, k2 \in Pooled(m_global_resetable_command_pools) :
                 m_global_resetable_command_pools[k1]
                     = m_global_resetable_command_pools[k2] => k1 = k2
          /\ DOMAIN m_global_onetime_command_pools \subseteq RequestedPairs
          /\ DOMAIN m_global_resetable_command_pools \subseteq RequestedPairs
          /\ RequestAnswer("GetGlobalOneTimeCommandPool",
                           m_global_onetime_command_pools)
          /\ RequestAnswer("GetGlobalResetableCommandPool",
                           m_global_resetable_command_pools))
    /\ [][/\ CacheStep(m_global_onetime_command_pools,
                       m_global_onetime_command_pools')
          /\ CacheStep(m_global_resetable_command_pools,
                       m_global_resetable_command_pools')
          /\ DomainStep("GetGlobalOneTimeCommandPool",
                        m_global_onetime_command_pools,
                        m_global_onetime_command_pools')
          /\ DomainStep("GetGlobalResetableCommandPool",
                        m_global_resetable_command_pools,
                        m_global_resetable_command_pools')
         ]_vars

C16_Witness ==
    /\ last.op = "GetGlobalOneTimeCommandPool"
    /\ last.outcome = "ok"
    /\ last.hadPool # 0
    /\ last.pool = last.hadPool
    /\ Cardinality(Pooled(m_global_onetime_command_pools)) >= 2

\* The living objects that hold native handle h.
Owners(h) == {o \in SyncObjects : syncState[o] = "alive" /\ m_sync_handle[o] = h}

\* C17: move-constructing a Semaphore or a Fence transfers the native handle:
\* at most one living object holds it afterwards, and over the lifetimes of
\* the objects it is destroyed exactly once (never twice; once when no object
\* holding it is left).
C17_MoveTransfersOwnership ==
    \A h \in SyncObjects :
        /\ Cardinality(Owners(h)) <= 1
        /\ destroyCount[h] <= 1
        /\ ((\E o \in SyncObjects : m_sync_handle[o] = h)
            /\ Owners(h) = {}) => destroyCount[h] = 1

\* The application holds no pointer to the context nor to any Buffer or Image
\* of a context that was constructed.
AllReleased ==
    /\ contextState # "unborn"
    /\ externalHolders = 0
    /\ \A r \in UserResources : resourceRefs[r] = 0

\* C18: the context is in no ownership cycle with the objects it holds: once
\* the application has released the context and every object created from
\* it, ~VulkanContext eventually runs and the device is torn down.
C18_ContextDestructorRuns == AllReleased ~> (contextState = "destroyed")

\* C19: a Buffer or Image destroys its native handles exactly once, and only
\* when no reference to it is left; while one is alive it is referenced, and
\* neither the allocator nor the context (and with it the logical device) has
\* been destroyed.
C19_ReleasedOnceAllocatorOutlives ==
    \A r \in Resources :
        /\ releaseCount[r] <= 1
        /\ (resourceState[r] = "destroyed") <=> (releaseCount[r] = 1)
        /\ resourceState[r] = "destroyed" => resourceRefs[r] = 0
        /\ resourceState[r] = "alive" =>
               /\ resourceRefs[r] > 0
               /\ allocatorState = "alive"
               /\ contextState = "alive"

\* A Buffer's last reference has just been dropped, after the application had
\* already released the context, and another resource is still alive.
C19_Witness ==
    /\ last.op = "ReleaseResource"
    /\ last.resource = "buffer"
    /\ resourceState["buffer"] = "destroyed"
    /\ releaseCount["buffer"] = 1
    /\ resourceState["image"] = "alive"
    /\ externalHolders = 0

\* The stage flags expected for a pair: the flag of each stage declaring it.
ExpectedStages(pair) ==
    (IF pair \in vertex_shader THEN VK_SHADER_STAGE_VERTEX_BIT ELSE 0)
    + (IF pair \in fragment_shader THEN VK_SHADER_STAGE_FRAGMENT_BIT ELSE 0)

\* The positions of binding b in the list of set s.
Positions(s, b) ==
    IF s \in DOMAIN descriptorSets
    THEN {i \in DOMAIN descriptorSets[s] : descriptorSets[s][i].binding = b}
    ELSE {}

\* C20: after a successful deduction every (set, binding) pair declared by
\* the vertex or the fragment stage has exactly one layout binding, in the
\* list of its set index, with the OR of the declaring stages' flags as its
\* stage visibility, and no list holds a binding that no stage declares.
C20_OneBindingPerPair ==
    deduceOutcome = "ok" =>
        /\ \A pair \in vertex_shader \cup fragment_shader :
               /\ Cardinality(Positions(pair[1], pair[2])) = 1
               /\ \A i \in Positions(pair[1], pair[2]) :
                      descriptorSets[pair[1]][i].stageFlags
                          = ExpectedStages(pair)
        /\ \A s \in DOMAIN descriptorSets :
               \A i \in DOMAIN descriptorSets[s] :
                   <<s, descriptorSets[s][i].binding>>
                       \in vertex_shader \cup fragment_shader

\* A deduction has merged a binding that both stages declare, next to
\* bindings that only one stage declares, over two set indices.
C20_Witness ==
    /\ deduceOutcome = "ok"
    /\ <<1, 0>> \in vertex_shader \cap fragment_shader
    /\ <<1, 1>> \in vertex_shader \ fragment_shader
    /\ <<0, 1>> \in fragment_shader \ vertex_shader
    /\ \E i \in DOMAIN descriptorSets[1] :
           descriptorSets[1][i] =
               [binding |-> 0,
                stageFlags |-> VK_SHADER_STAGE_VERTEX_BIT
                               + VK_SHADER_STAGE_FRAGMENT_BIT]

\* The stage mask expected for a range: the flag of each stage declaring it.
ExpectedPushStages(range) ==
    (IF range \in vertex_push_constants
     THEN VK_SHADER_STAGE_VERTEX_BIT ELSE 0)
    + (IF range \in fragment_push_constants
       THEN VK_SHADER_STAGE_FRAGMENT_BIT ELSE 0)

\* The positions of a range in the deduced list.
PushPositions(range) ==
    {i \in DOMAIN push_constants :
        /\ push_constants[i].offset = range[1]
        /\ push_constants[i].size = range[2]}

\* C21: after a successful deduction every (offset, size) range declared by
\* the vertex or the fragment stage appears exactly once in the result, and
\* its stage mask is the OR of the flags of the stages that declare it.
C21_OneRangePerOffsetSize ==
    deduceOutcome = "ok" =>
        \A range \in vertex_push_constants \cup fragment_push_constants :
            /\ Cardinality(PushPositions(range)) = 1
            /\ \A i \in PushPositions(range) :
                   push_constants[i].stageFlags = ExpectedPushStages(range)

\* C22: a WriteImage or WriteImages call that is given an image without a
\* sampler fails fast (the assert ends the process) and leaves every binding
\* of the set as it was, the bindings of the images before the offending one
\* included.
C22_UnsampledImageFailsFast ==
    (last.op \in {"WriteImage", "WriteImages"} /\ last.unsampled) =>
        /\ last.outcome = "assert"
        /\ aborted
        /\ m_descriptor_set = last.before

\* WriteImages was given a sampled image followed by an unsampled one; the
\* binding of the first image, like every other, is still unwritten.
C22_Witness ==
    /\ last.op = "WriteImages"
    /\ last.data = <<"texture1", "texture2">>
    /\ m_image_sampler["texture1"] = "sampler"
    /\ m_image_sampler["texture2"] = "nullptr"
    /\ last.outcome = "assert"
    /\ \A b \in DescBindings : m_descriptor_set[b] = "none"

\* C23: Buffer.Write on a buffer without host access fails and copies
\* nothing; on a persistently mapped buffer it only copies, into the held
\* mapping; on any other buffer it maps, copies and unmaps, in this order;
\* whenever it returns, the buffer holds as many mappings as before the call.
C23_WriteKeepsMappingState ==
    last.op = "Write" =>
        /\ ~last.mappingAllowed =>
               /\ last.outcome = "assert"
               /\ last.calls = <<>>
               /\ bufferMemory[last.buffer] = last.memoryBefore
        /\ (last.mappingAllowed /\ last.persistent) =>
               /\ last.outcome = "ok"
               /\ last.calls = <<"memcpy">>
               /\ bufferMemory[last.buffer] = last.data
        /\ (last.mappingAllowed /\ ~last.persistent
            /\ last.outcome = "ok") =>
               last.calls = <<"vmaMapMemory", "memcpy", "vmaUnmapMemory">>
        /\ last.outcome = "ok" => mapCount[last.buffer] = last.mapBefore

\* A Write on a host-writable buffer that is not persistently mapped has
\* returned, and the other buffer is persistently mapped and written.
C23_Witness ==
    /\ last.op = "Write"
    /\ last.buffer = "staging"
    /\ last.outcome = "ok"
    /\ last.mappingAllowed /\ ~last.persistent
    /\ bufferMemory["staging"] = "data1"
    /\ mapCount["staging"] = 0
    /\ bufferMemory["uniform"] = "data2"
    /\ mapCount["uniform"] = 1

CommandOps == {"CopyCommand", "WriteCommand", "TransitionLayoutCommand"}

\* C24: a ...Command call given a command buffer that is not recording fails,
\* records nothing and leaves the image layout alone; given a recording one
\* it neither ends nor submits it: the buffer is still recording, and its
\* submissions and the pending GPU work are what they were.
C24_CommandVariantsOnlyRecord ==
    last.op \in CommandOps =>
        /\ ~last.wasRecording =>
               /\ last.outcome = "assert"
               /\ Len(recorded) = last.before
               /\ m_image_layout = last.from
        /\ last.wasRecording =>
               /\ IsRecording(last.cb)
               /\ submitOf[last.cb] = last.submitBefore
               /\ pending = last.pendingBefore
               /\ handle[last.cb] = "valid"

\* WriteCommand has recorded its three commands into a recording buffer.
C24_Witness ==
    /\ last.op = "WriteCommand"
    /\ last.outcome = "ok"
    /\ last.wasRecording
    /\ Len(recorded) = last.before + 3
    /\ IsRecording(last.cb)

\* C25: when Fence.Wait returns, whatever the timeout, the submission the
\* fence guards is no longer pending, and a Wait that resets the fence has
\* seen it signaled.
C25_WaitMeansCompleted ==
    last.op = "Wait" =>
        /\ ~last.guardedPending
        /\ last.reset => last.result = "VK_SUCCESS"

\* create_swap_chain has just returned: out of Create, or to line 53 of
\* RecreateSwapChain.
SwapChainJustCreated ==
    \/ last.op = "Create" /\ last.outcome = "ok"
    \/ \E t \in Threads : pc[t] = "clear_flag"

\* The image count the claim gives for the surface.
ExpectedImageCount ==
    LET wanted == surfaceCapabilities.minImageCount + 1
    IN  IF surfaceCapabilities.maxImageCount = 0 THEN wanted
        ELSE IF wanted < surfaceCapabilities.maxImageCount THEN wanted
        ELSE surfaceCapabilities.maxImageCount

\* C26: after a successful swapchain creation or recreation the image count
\* requested is minImageCount + 1 when maxImageCount is 0, else the smaller
\* of minImageCount + 1 and maxImageCount, and the stored image count is not
\* below it.
C26_RequestedImageCount ==
    SwapChainJustCreated =>
        /\ swapChainCreateInfo.minImageCount = ExpectedImageCount
        /\ m_swapchain_image_count >= ExpectedImageCount

\* A recreation has succeeded on a surface whose maxImageCount cuts the
\* request down, and the driver has created one image more.
C26_Witness ==
    /\ pc[Caller] = "clear_flag"
    /\ surfaceCapabilities.maxImageCount = surfaceCapabilities.minImageCount
    /\ swapChainCreateInfo.minImageCount = surfaceCapabilities.maxImageCount
    /\ m_swapchain_image_count = surfaceCapabilities.maxImageCount + 1

\* v brought into lo..hi.
Within(v, lo, hi) == IF v < lo THEN lo ELSE IF v > hi THEN hi ELSE v

\* The stored extent lies in the range of the surface.
ExtentInRange ==
    /\ ExtentLeq(surfaceCapabilities.minImageExtent,
                 m_swapchain_current_extent)
    /\ ExtentLeq(m_swapchain_current_extent,
                 surfaceCapabilities.maxImageExtent)

\* Where the surface leaves the extent to the application, the stored
\* extent is the framebuffer size brought into the range of the surface.
ExtentFromFramebuffer ==
    surfaceSpecial =>
        m_swapchain_current_extent =
            <<Within(windowSize[1], surfaceCapabilities.minImageExtent[1],
                     surfaceCapabilities.maxImageExtent[1]),
              Within(windowSize[2], surfaceCapabilities.minImageExtent[2],
                     surfaceCapabilities.maxImageExtent[2])>>

\* C29: after a successful create_swap_chain the stored extent has non-zero
\* width and height, lies in [minImageExtent, maxImageExtent], and, where
\* the surface leaves the extent to the application, is the polled
\* framebuffer size clamped to that range.
C29_ExtentNonZeroInRange ==
    SwapChainJustCreated =>
        /\ m_swapchain_current_extent[1] # 0
        /\ m_swapchain_current_extent[2] # 0
        /\ ExtentInRange
        /\ ExtentFromFramebuffer

\* The parts of C29 other than the non-zero extent.
C29_ExtentInRangeOnly ==
    SwapChainJustCreated => ExtentInRange /\ ExtentFromFramebuffer

\* The order in which the claim has the destructor release the objects.
ReleaseOrder ==
    <<"swapchain", "allocator", "logical_device", "surface",
      "debug_messenger", "instance">>

\* C27: Create makes instance, debug messenger, surface, physical device,
\* logical device, memory allocator and swapchain in this order, and once
\* the application holds nothing of a context that Create has completed,
\* the destructor has released swapchain, allocator, logical device,
\* surface, debug messenger and instance, in this order; what has been
\* released so far is always a beginning of that order.
C27_InitOrderReleasedInReverse ==
    /\ IsPrefix(initialized, InitOrder)
    /\ initialized = InitOrder => IsPrefix(released, ReleaseOrder)
    /\ (AllReleased /\ initialized = InitOrder) => released = ReleaseOrder

\* The creation order and the order of what is released, without the
\* release itself.
C27_OrderOnly ==
    /\ IsPrefix(initialized, InitOrder)
    /\ initialized = InitOrder => IsPrefix(released, ReleaseOrder)

\* C28: in RecreateSwapChain the old depth/stencil image is gone once the
\* old swapchain is torn down, before the surface capabilities are queried
\* and the new swapchain and depth/stencil image are created, and never do
\* two depth/stencil images exist together.
C28_OldDepthImageDestroyedFirst ==
    /\ \A t \in Threads :
           pc[t] \in TornDown => resourceState["depth"] # "alive"
    /\ depthPeak <= 1

\* C30: the device create_physical_device selects passes the feature check,
\* has every required queue family, offers every required extension and has
\* surface formats and present modes, and no device before it does; the
\* call fails, with no further device examined, exactly when no enumerated
\* device passes.
C30_FirstSuitableDevice ==
    /\ deviceOutcome = "selected" =>
           /\ selectedDevice.handle = m_physical_device
           /\ Qualifies(selectedDevice)
           /\ ~skippedQualified
    /\ deviceOutcome = "runtime_error" =>
           /\ deviceIndex = phyDevCnt
           /\ selectedDevice = NoDevice
           /\ ~skippedQualified

\* The second device is selected after the first one failed.
C30_Witness ==
    /\ deviceOutcome = "selected"
    /\ deviceIndex = 2
    /\ Qualifies(selectedDevice)

\* Some listed family has capability c; index idx names a family that has it.
HasCapability(c) ==
    \E i \in 1..Len(queueFamilies) : c \in queueFamilies[i]

NamesFamilyWith(idx, c) ==
    /\ idx \in 0..(Len(queueFamilies) - 1)
    /\ c \in queueFamilies[idx + 1]

FamiliesResolved == familiesChecked \in {"true", "false"}

\* C31: after check_physical_device_queue_families_support, if some family
\* supports both graphics and presentation the graphics and present indices
\* are equal and name such a family; every resolved index names a family
\* with its capability, and an index has no value exactly when no family
\* has the capability.
C31_IndicesNameCapableFamilies ==
    FamiliesResolved =>
        /\ (\E i \in 1..Len(queueFamilies) :
                {"graphics", "present"} \subseteq queueFamilies[i]) =>
               /\ m_device_queue_family.graphics
                      = m_device_queue_family.present
               /\ NamesFamilyWith(m_device_queue_family.graphics, "graphics")
               /\ NamesFamilyWith(m_device_queue_family.graphics, "present")
        /\ \A c \in AllQueueCaps :
               IF HasCapability(c)
               THEN NamesFamilyWith(m_device_queue_family[c], c)
               ELSE m_device_queue_family[c] = -1

\* Graphics and present were first found in different families and a later
\* family offers both.
C31_Witness ==
    /\ FamiliesResolved
    /\ Len(queueFamilies) = 3
    /\ queueFamilies[1] = {"graphics", "compute"}
    /\ queueFamilies[2] = {"present"}
    /\ queueFamilies[3] = {"graphics", "present", "transfer"}
    /\ m_device_queue_family.graphics = 2
    /\ m_device_queue_family.present = 2

\* C32: after check_physical_device_queue_families_support, if a
\* transfer-capable family other than the resolved graphics family exists,
\* the transfer index differs from the graphics index.
C32_TransferApartFromGraphics ==
    FamiliesResolved =>
        ((\E i \in 1..Len(queueFamilies) :
              /\ "transfer" \in queueFamilies[i]
              /\ i - 1 # m_device_queue_family.graphics)
         => m_device_queue_family.transfer # m_device_queue_family.graphics)

\* Transfer was moved off the first graphics family, and coalescing then
\* moved graphics to a later family that can transfer too.
C32_Witness ==
    /\ FamiliesResolved
    /\ Len(queueFamilies) = 3
    /\ queueFamilies[1] = {"graphics", "transfer"}
    /\ queueFamilies[2] = {"transfer"}
    /\ queueFamilies[3] = {"graphics", "present", "transfer"}
    /\ m_device_queue_family.graphics = 2
    /\ m_device_queue_family.transfer = 1

\* C33: the static flag of RecreateSwapChain is set only while some call is
\* between its entry and its return, also after create_swap_chain has thrown
\* out of RecreateSwapChain; a call made while no other call is running is
\* never rejected as concurrent.
C33_GuardHeldOnlyWhileRecreating ==
    /\ RECREATING => \E t \in Threads : pc[t] # "idle"
    /\ (last.op = "RecreateSwapChain" /\ last.outcome = "concurrent_error")
           => last.otherRunning

\* C34: over any sequence of successful and failed RecreateSwapChain calls no
\* swapchain and no image view is destroyed twice, and no destroy_swap_chain,
\* present or acquire is handed a swapchain or image view that
\* destroy_swap_chain has destroyed.
C34_NoDestroyedHandleUsed ==
    handleUse # "destroyed"

\* The application holds no pointer to a context and no object made from one.
NothingHeld ==
    /\ externalHolders = 0
    /\ \A r \in UserResources : resourceRefs[r] = 0

\* C35: the creation guard permits VulkanContext::Create exactly when the
\* application has no Device Context: it permits it after a Create that
\* failed part-way, and again once the only context and everything made from
\* it have been released.
C35_GuardTracksContext ==
    /\ NO_VULKAN_CONTEXTS <=> NothingHeld
    /\ (last.op = "Create" /\ last.outcome = "runtime_error"
        /\ last.existed = 0) => NO_VULKAN_CONTEXTS

\* The guard after a Create that failed part-way, taken alone.
C35_FailedCreateKeepsGuard ==
    (last.op = "Create" /\ last.outcome = "runtime_error"
     /\ last.existed = 0) => NO_VULKAN_CONTEXTS

\* C36: whenever PresentSwapChain, Screenshot or RenderPass::Begin use the
\* current swapchain image index, it is smaller than the number of images of
\* the current swapchain, also after a RecreateSwapChain that produced fewer
\* images and before the next acquire.
C36_ImageIndexInRange ==
    indexUse # "out_of_range"

\* C37: Screenshot, for a target image in any layout the Image API leaves,
\* runs to the end of its record-and-submit sequence (the native calls
\* succeeding) and leaves the recorded layout of the image as it was.
C37_ScreenshotKeepsLayout ==
    (last.op = "Screenshot" /\ last.outcome # "runtime_error") =>
        /\ last.outcome = "ok"
        /\ m_image_layout = last.from

\* Screenshot leaves the layout as it was for every layout but Undefined.
C37_LayoutKeptUnlessUndefined ==
    (last.op = "Screenshot"
     /\ last.from # "VK_IMAGE_LAYOUT_UNDEFINED") =>
        m_image_layout = last.from

\* C38: the region of every copy Buffer.CopyCommand records lies inside both
\* buffers (size 0 standing for the whole source): source offset plus size
\* is at most the source size, destination offset plus size at most the
\* destination size; any other request records nothing.
C38_CopyRegionInsideBuffers ==
    /\ bufferCopy.srcOffset + bufferCopy.size <= bufferCopy.srcSize
    /\ bufferCopy.dstOffset + bufferCopy.size <= bufferCopy.dstSize

\* The destination end of the region, for a destination offset inside the
\* destination.
C38_DestinationInsideUnlessWrapped ==
    bufferCopy.dstOffset <= bufferCopy.dstSize =>
        bufferCopy.dstOffset + bufferCopy.size <= bufferCopy.dstSize

\* C39: the surface check of a candidate depends on that candidate only: the
\* selected device has surface formats and present modes of its own, whatever
\* an earlier rejected candidate reported, and the surface-format and
\* present-mode lists the context keeps are those of the selected device.
C39_SurfaceListsOfSelectedDevice ==
    deviceOutcome = "selected" =>
        /\ selectedDevice.formatCount # 0
        /\ selectedDevice.presentModeCount # 0
        /\ m_surface_formats = selectedDevice.formatCount
        /\ m_surface_present_modes = selectedDevice.presentModeCount

\* ---------------------------------------------------------------- C40
\* C40: when several threads request their global pools concurrently, every
\* pool a getter has returned is still the registry's entry of its (thread,
\* queue family) key, a key has been given one pool only, and a pool belongs to
\* one key only.
C40_EachThreadKeepsItsOwnPool ==
    /\ \A g \in granted : Cached(Registry(g[1]), g[2]) = g[3]
    /\ \A g1, g2 \in granted :
           (g1[1] = g2[1] /\ g1[2] = g2[2]) => g1[3] = g2[3]
    /\ \A g1, g2 \in granted :
           (g1[1] = g2[1] /\ g1[3] = g2[3]) => g1[2] = g2[2]

====
